---- MODULE Spec2Model ----
(***************************************************************************)
(* Voice-conversation relay server: session registry, protocol dispatcher  *)
(* and the transcribe -> stream-completion -> synthesis pipeline.          *)
(*                                                                         *)
(* Node runs the handlers on one event-loop thread: a handler runs without *)
(* interruption up to its next `await`, so every action below is one such  *)
(* run-to-suspension segment of the code.                                  *)
(*                                                                         *)
(* Data representation.                                                    *)
(*  - A Buffer is a byte sequence in run-length form: a sequence of runs   *)
(*    <<byte, count>> with count > 0 and no two neighbouring runs of the   *)
(*    same byte, so equal byte sequences have equal representations and    *)
(*    lengths around the 4096-byte TTS chunk size stay small values.       *)
(*  - A text is a sequence of characters.                                  *)
(*  - The base64 transport string of bytes b is the pair <<"base64", b>>.  *)
(*  - sent[ws][w] is the sequence of envelopes written to connection ws by *)
(*    writer w, in the order of the ws.send calls: writer -1 is the        *)
(*    connection layer, writer 0 the message handlers' direct replies,     *)
(*    writer k > 0 the k-th audio.end invocation that reached the          *)
(*    pipeline. The order of two sends of different                        *)
(*    writers on one connection is not recorded: it is any interleaving    *)
(*    the event loop produces.                                             *)
(***************************************************************************)
EXTENDS Integers, Sequences, FiniteSets, TLC

\* ---------------------------------------------------------------- bounds
MaxMsgs == 3         \* inbound messages handled on all connections together
MaxPipelines == 2    \* audio.end invocations that reach the pipeline
MaxDeltas == 2       \* fragments yielded by all completion streams together
MaxTtsFrags == 1     \* reader fragments of all speech responses together
ReuseMsgs == 4       \* inbound messages where a session is used again
RoutingMsgs == 3     \* inbound messages where two clients address two session ids
DispatchMsgs == 3    \* inbound messages where some have an unknown type
ExpiryMsgs == 2      \* inbound messages while the clock runs
LifecycleMsgs == 2   \* inbound messages over the life of the server
BroadcastMsgs == 2   \* inbound messages between broadcasts
FairMsgs == 3        \* inbound messages when every call settles
InterleaveMsgs == 4  \* inbound messages of one client with two sessions
MaxDrift == 1        \* milliseconds the clock runs apart from whole expiration times

\* ---------------------------------------------------------- program data
chunkSize == 4096
expirationTime == 3600000     \* config.session.expirationTime, milliseconds
cleanupPeriod == 60000        \* the period of the cleanup interval timer

Conns == {"c1", "c2"}
SessionIds == {"s1", "s2"}
NoSession == 0            \* sessions.get(id) of an id that is not a key
Unassociated == "none"    \* clientSessions.get(ws) of a connection that is not a key
Null == <<"null">>
ConnectionLayer == -1     \* the writer of the connection layer's own envelopes
Cleared == -1             \* cleanupInterval once clearInterval has run

\* the data of the inbound audio.chunk frames: payload bytes and the client's
\* sequence number (the clients number their chunks as they like)
ChunkData == { [chunk |-> << <<"x", 1>> >>, sequenceNumber |-> 1],
               [chunk |-> << <<"y", 2>> >>, sequenceNumber |-> 0] }
\* results of the external calls
Transcripts == {<<"h">>}
Deltas == {<<>>, <<"a">>, <<"b">>}
TtsFragments == {<< <<"A", 2>> >>, << <<"B", chunkSize + 1>> >>}

VARIABLES sessions, heap, clientSessions, sent, pipelines, now, readyState,
          cleanupInterval

vars == <<sessions, heap, clientSessions, sent, pipelines, now, readyState,
          cleanupInterval>>

\* ------------------------------------------------------------- Buffers
RECURSIVE BufLen(_)
BufLen(buf) == IF buf = <<>> THEN 0 ELSE Head(buf)[2] + BufLen(Tail(buf))

BufConcat2(a, b) ==
    IF a = <<>> THEN b
    ELSE IF b = <<>> THEN a
    ELSE IF a[Len(a)][1] = b[1][1]
         THEN SubSeq(a, 1, Len(a) - 1)
                \o << <<b[1][1], a[Len(a)][2] + b[1][2]>> >>
                \o Tail(b)
         ELSE a \o b

RECURSIVE BufferConcat(_)
BufferConcat(list) ==
    IF list = <<>> THEN <<>>
    ELSE BufConcat2(Head(list), BufferConcat(Tail(list)))

RECURSIVE BufTake(_, _)
BufTake(buf, n) ==
    IF n <= 0 \/ buf = <<>> THEN <<>>
    ELSE IF Head(buf)[2] <= n
         THEN << Head(buf) >> \o BufTake(Tail(buf), n - Head(buf)[2])
         ELSE << <<Head(buf)[1], n>> >>

RECURSIVE BufDrop(_, _)
BufDrop(buf, n) ==
    IF n <= 0 \/ buf = <<>> THEN buf
    ELSE IF Head(buf)[2] <= n
         THEN BufDrop(Tail(buf), n - Head(buf)[2])
         ELSE << <<Head(buf)[1], Head(buf)[2] - n>> >> \o Tail(buf)

\* Buffer.slice(start, end): the bytes at offsets start .. end-1, clipped
BufSlice(buf, start, end) == BufTake(BufDrop(buf, start), end - start)

ToBase64(buf) == <<"base64", buf>>
FromBase64(str) == str[2]

\* ------------------------------------------------------------- Session
NewSession(sessionId, t) ==
    [sessionId |-> sessionId, audioChunks |-> <<>>, transcript |-> <<>>,
     llmResponse |-> <<>>, state |-> "recording", createdAt |-> t,
     audioBuffer |-> Null]

addAudioChunk(s, chunk) ==
    [s EXCEPT !.audioChunks = Append(@, FromBase64(chunk))]

\* the Session after getAudioBuffer(): the cache is filled when it was empty
getAudioBuffer(s) ==
    IF s.audioBuffer = Null
    THEN [s EXCEPT !.audioBuffer = BufferConcat(s.audioChunks)]
    ELSE s

setTranscript(s, transcript) == [s EXCEPT !.transcript = transcript]

setState(s, state) == [s EXCEPT !.state = state]

cleanup(s) == [s EXCEPT !.audioChunks = <<>>, !.audioBuffer = Null]

\* mutant: a session is expired from its maximum age on
isExpired_inclusive(s, maxDuration) == now - s.createdAt >= maxDuration

isExpired(s, maxDuration) == now - s.createdAt > maxDuration

\* ------------------------------------------------------ SessionManager
getSession(sessionId) == sessions[sessionId]

HasSession(sessionId) == getSession(sessionId) # NoSession

\* mutant: an id that is registered keeps its session
createSession_keeps(sessionId) ==
    IF HasSession(sessionId)
    THEN << sessions, heap >>
    ELSE << [sessions EXCEPT ![sessionId] = Len(heap) + 1],
            Append(heap, NewSession(sessionId, now)) >>

\* <<sessions, heap>> after createSession(sessionId)
createSession(sessionId) ==
    << [sessions EXCEPT ![sessionId] = Len(heap) + 1],
       Append(heap, NewSession(sessionId, now)) >>

\* mutant: deleting one id empties the map
deleteSessionIn_all(reg, objs, sessionId) ==
    IF reg[sessionId] # NoSession
    THEN << [id \in DOMAIN reg |-> NoSession],
            [objs EXCEPT ![reg[sessionId]] = cleanup(@)] >>
    ELSE << reg, objs >>

\* deleteSession(sessionId) on the map reg and the Session objects objs: the
\* map and the objects afterwards
deleteSessionIn(reg, objs, sessionId) ==
    IF reg[sessionId] # NoSession
    THEN << [reg EXCEPT ![sessionId] = NoSession],
            [objs EXCEPT ![reg[sessionId]] = cleanup(@)] >>
    ELSE << reg, objs >>

\* <<sessions, heap>> after deleteSession(sessionId)
deleteSession(sessionId) == deleteSessionIn(sessions, heap, sessionId)

\* the session ids the callback of the cleanup interval deletes
Expired ==
    {id \in SessionIds :
        HasSession(id) /\ isExpired(heap[getSession(id)], expirationTime)}

\* The callback of the cleanup interval, which fires no earlier than
\* cleanupPeriod after the timer was armed or fired last: deleteSession for
\* every expired session (the deletions of different ids do not touch each
\* other, so their order does not matter).
cleanupSweep ==
    /\ cleanupInterval >= 0
    /\ now - cleanupInterval >= cleanupPeriod
    /\ cleanupInterval' = now
    /\ sessions' = [id \in SessionIds |->
                      IF id \in Expired THEN NoSession ELSE sessions[id]]
    /\ heap' = [s \in 1..Len(heap) |->
                  IF \E id \in Expired : getSession(id) = s
                  THEN cleanup(heap[s]) ELSE heap[s]]
    /\ UNCHANGED <<clientSessions, sent, pipelines, now, readyState>>

\* Date.now() moves on by d milliseconds
Tick(d) ==
    /\ now' = now + d
    /\ UNCHANGED <<sessions, heap, clientSessions, sent, pipelines, readyState,
                   cleanupInterval>>

\* ------------------------------------------------------------ envelopes
Envelope(type, sessionId, data) ==
    [type |-> type, sessionId |-> sessionId, timestamp |-> now, data |-> data]

ErrorEnvelope(sessionId, code, message) ==
    Envelope("error", sessionId, [code |-> code, message |-> message])

SessionNotFound(sessionId) ==
    ErrorEnvelope(sessionId, "SESSION_NOT_FOUND", <<"Session", sessionId, "not found">>)

SessionReady(sessionId) ==
    Envelope("session.ready", sessionId,
             [status |-> "ready",
              config |-> [maxAudioDuration |-> 30000, chunkSize |-> 16384]])

\* mutant: the acknowledgment carries the server's own count of the chunk
AudioReceived_counted(sessionId, sequenceNumber) ==
    Envelope("audio.received", sessionId,
             [sequenceNumber |-> Len(heap[getSession(sessionId)].audioChunks),
              message |-> <<"Received chunk", sequenceNumber>>])

AudioReceived(sessionId, sequenceNumber) ==
    Envelope("audio.received", sessionId,
             [sequenceNumber |-> sequenceNumber,
              message |-> <<"Received chunk", sequenceNumber>>])

\* mutant: the cancellation is confirmed with an error envelope
SessionCancelled_asError(sessionId) ==
    ErrorEnvelope(sessionId, "SESSION_CANCELLED", "Session cancelled")

SessionCancelled(sessionId) ==
    Envelope("session.cancelled", sessionId, [message |-> "Session cancelled"])

TranscriptComplete(sessionId, transcript) ==
    Envelope("transcript.complete", sessionId,
             [transcript |-> transcript, language |-> "en"])

LlmChunk(sessionId, chunk) ==
    Envelope("llm.chunk", sessionId, [content |-> chunk])

LlmComplete(sessionId, fullResponse) ==
    Envelope("llm.complete", sessionId, [fullText |-> fullResponse])

\* mutant: the chunk is numbered by its byte offset
AudioChunkEnvelope_offset(sessionId, audioBuffer, i) ==
    Envelope("audio.chunk", sessionId,
             [chunk |-> ToBase64(BufSlice(audioBuffer, i, i + chunkSize)),
              sequenceNumber |-> i])

AudioChunkEnvelope(sessionId, audioBuffer, i) ==
    Envelope("audio.chunk", sessionId,
             [chunk |-> ToBase64(BufSlice(audioBuffer, i, i + chunkSize)),
              sequenceNumber |-> i \div chunkSize])

\* mutant: the loop runs while i <= audioBuffer.length
RECURSIVE SendAudioChunks_inclusive(_, _, _)
SendAudioChunks_inclusive(sessionId, audioBuffer, from) ==
    IF from <= BufLen(audioBuffer)
    THEN << AudioChunkEnvelope(sessionId, audioBuffer, from) >>
           \o SendAudioChunks_inclusive(sessionId, audioBuffer, from + chunkSize)
    ELSE <<>>

\* the envelopes of the loop `for (i = from; i < audioBuffer.length; i += chunkSize)`
RECURSIVE SendAudioChunks(_, _, _)
SendAudioChunks(sessionId, audioBuffer, from) ==
    IF from < BufLen(audioBuffer)
    THEN << AudioChunkEnvelope(sessionId, audioBuffer, from) >>
           \o SendAudioChunks(sessionId, audioBuffer, from + chunkSize)
    ELSE <<>>

\* mutant: totalSize counts whole chunks
AudioComplete_rounded(sessionId, audioBuffer) ==
    Envelope("audio.complete", sessionId,
             [totalSize |-> ((BufLen(audioBuffer) + chunkSize - 1) \div chunkSize) * chunkSize])

AudioComplete(sessionId, audioBuffer) ==
    Envelope("audio.complete", sessionId, [totalSize |-> BufLen(audioBuffer)])

\* what writer inv has written to connection ws
Written(ws, inv) == IF inv \in DOMAIN sent[ws] THEN sent[ws][inv] ELSE <<>>

\* the connection is open: frames arrive on it and ws.send writes to it
Open(ws) == readyState[ws] = "OPEN"

\* frames still arrive on the connection: it is open, or the server has
\* started to close it and the client's close frame is not there yet
Receiving(ws) == readyState[ws] \in {"OPEN", "CLOSING"}

\* mutant: what a pipeline invocation sends goes to every open connection
Send_toAll(ws, envs, inv) ==
    sent' = [c \in Conns |->
               IF readyState[c] = "OPEN" /\ (c = ws \/ inv > 0)
               THEN [w \in DOMAIN sent[c] \cup {inv} |->
                       Written(c, w) \o (IF w = inv THEN envs ELSE <<>>)]
               ELSE sent[c]]

\* ws.send of a sequence of envelopes by writer inv (0: a message handler).
\* No call passes a callback: on a socket that is closed the data is dropped
\* and nothing is thrown.
Send(ws, envs, inv) ==
    sent' = IF Open(ws)
            THEN [sent EXCEPT ![ws] =
                   [w \in DOMAIN @ \cup {inv} |->
                       Written(ws, w) \o (IF w = inv THEN envs ELSE <<>>)]]
            ELSE sent

\* number of inbound frames handled so far on open connections: every one got
\* exactly one reply, from its handler or (a frame that could not be parsed)
\* from the connection layer, except an audio.end that started a pipeline
\* invocation
RECURSIVE SumReplies(_)
SumReplies(S) ==
    IF S = {} THEN 0
    ELSE LET x == CHOOSE y \in S : TRUE IN
         Len(Written(x, 0))
           + Len(SelectSeq(Written(x, ConnectionLayer), LAMBDA e : e.type = "error"))
           + SumReplies(S \ {x})

Handled == SumReplies(Conns) + Len(pipelines)

\* -------------------------------------------------------------- Init
Init ==
    /\ sessions = [id \in SessionIds |-> NoSession]
    /\ heap = <<>>
    /\ clientSessions = [ws \in Conns |-> Unassociated]
    /\ sent = [ws \in Conns |-> [w \in {0} |-> <<>>]]
    /\ pipelines = <<>>
    /\ now = 0
    /\ readyState = [ws \in Conns |-> "NONE"]
    /\ cleanupInterval = 0

\* the `connection` event of a new client: send the confirmation
ConnectionEstablished ==
    [type |-> "connection.established", timestamp |-> now,
     data |-> [message |-> "Connected to server"]]

connection(ws) ==
    /\ readyState[ws] = "NONE"
    /\ readyState' = [readyState EXCEPT ![ws] = "OPEN"]
    /\ sent' = [sent EXCEPT ![ws] =
                 [w \in DOMAIN @ \cup {ConnectionLayer} |->
                     Written(ws, w) \o (IF w = ConnectionLayer
                                         THEN << ConnectionEstablished >> ELSE <<>>)]]
    /\ UNCHANGED <<sessions, heap, clientSessions, pipelines, now, cleanupInterval>>

\* the connection layer's message handler: remember the frame's session id
Track(ws, sessionId) == clientSessions' = [clientSessions EXCEPT ![ws] = sessionId]

\* ------------------------------------------------- MessageHandler.handle
\* mutant: a session.start is handled only once every invocation has ended
handleSessionStart_waits(ws, sessionId) ==
    /\ \A k \in 1..Len(pipelines) : pipelines[k].pc \in {"done", "failed"}
    /\ Track(ws, sessionId)
    /\ sessions' = createSession(sessionId)[1]
    /\ heap' = createSession(sessionId)[2]
    /\ Send(ws, << SessionReady(sessionId) >>, 0)
    /\ UNCHANGED <<pipelines, now, readyState, cleanupInterval>>

handleSessionStart(ws, sessionId) ==
    /\ Track(ws, sessionId)
    /\ sessions' = createSession(sessionId)[1]
    /\ heap' = createSession(sessionId)[2]
    /\ Send(ws, << SessionReady(sessionId) >>, 0)
    /\ UNCHANGED <<pipelines, now, readyState, cleanupInterval>>

\* mutant: a chunk for an unknown id creates the session
handleAudioChunk_creates(ws, sessionId, chunk, sequenceNumber) ==
    /\ Track(ws, sessionId)
    /\ LET created == IF HasSession(sessionId) THEN <<sessions, heap>>
                       ELSE createSession(sessionId)
           session == created[1][sessionId]
       IN /\ sessions' = created[1]
          /\ heap' = [created[2] EXCEPT ![session] = addAudioChunk(@, chunk)]
    /\ Send(ws, << AudioReceived(sessionId, sequenceNumber) >>, 0)
    /\ UNCHANGED <<pipelines, now, readyState, cleanupInterval>>

handleAudioChunk(ws, sessionId, chunk, sequenceNumber) ==
    /\ Track(ws, sessionId)
    /\ IF ~HasSession(sessionId)
       THEN /\ Send(ws, << SessionNotFound(sessionId) >>, 0)
            /\ UNCHANGED heap
       ELSE /\ heap' = [heap EXCEPT ![getSession(sessionId)] = addAudioChunk(@, chunk)]
            /\ Send(ws, << AudioReceived(sessionId, sequenceNumber) >>, 0)
    /\ UNCHANGED <<sessions, pipelines, now, readyState, cleanupInterval>>

\* The state of one audio.end invocation: where it is suspended (pc), the
\* handler's locals (ws, sessionId, session, audioBuffer, transcript,
\* fullResponse, ttsBuffer) and, for stating the properties, a record of what
\* the collaborators were asked and gave: calls (the external calls made),
\* yielded (the fragments streamCompletion yielded),
\* ttsFragments (fragments read from the speech response), failedAt (the call
\* that failed), accepted (the session's chunks when audio.end arrived) and
\* sessionAt (what the registry held under sessionId at the invocation's
\* latest step) and created (the number of Session objects constructed when
\* audio.end arrived).
NewPipeline(ws, sessionId, session, audioBuffer) ==
    [ws |-> ws, sessionId |-> sessionId, session |-> session, pc |-> "transcribe",
     audioBuffer |-> audioBuffer, transcript |-> <<>>, fullResponse |-> <<>>,
     ttsBuffer |-> <<>>,
     calls |-> << [op |-> "transcribe", arg |-> audioBuffer] >>,
     yielded |-> <<>>, ttsFragments |-> <<>>, failedAt |-> "none",
     accepted |-> heap[session].audioChunks, sessionAt |-> session,
     created |-> Len(heap)]

\* mutant: an audio.end is refused while an invocation of the session runs
handleAudioEnd_exclusive(ws, sessionId) ==
    /\ Track(ws, sessionId)
    /\ IF \/ ~HasSession(sessionId)
          \/ \E k \in 1..Len(pipelines) :
                /\ pipelines[k].session = getSession(sessionId)
                /\ pipelines[k].pc \notin {"done", "failed"}
       THEN /\ Send(ws, << SessionNotFound(sessionId) >>, 0)
            /\ UNCHANGED <<heap, pipelines>>
       ELSE LET session == getSession(sessionId)
                s == getAudioBuffer(setState(heap[session], "processing"))
            IN /\ heap' = [heap EXCEPT ![session] = s]
               /\ pipelines' = Append(pipelines,
                                  NewPipeline(ws, sessionId, session, s.audioBuffer))
               /\ UNCHANGED sent
    /\ UNCHANGED <<sessions, now, readyState, cleanupInterval>>

\* handleAudioEnd up to `await this.openaiService.transcribe(audioBuffer)`
handleAudioEnd(ws, sessionId) ==
    /\ Track(ws, sessionId)
    /\ IF ~HasSession(sessionId)
       THEN /\ Send(ws, << SessionNotFound(sessionId) >>, 0)
            /\ UNCHANGED <<heap, pipelines>>
       ELSE LET session == getSession(sessionId)
                s == getAudioBuffer(setState(heap[session], "processing"))
            IN /\ heap' = [heap EXCEPT ![session] = s]
               /\ pipelines' = Append(pipelines,
                                  NewPipeline(ws, sessionId, session, s.audioBuffer))
               /\ UNCHANGED sent
    /\ UNCHANGED <<sessions, now, readyState, cleanupInterval>>

\* mutant: cancelling an id that is not registered is refused
handleSessionCancel_strict(ws, sessionId) ==
    /\ Track(ws, sessionId)
    /\ sessions' = deleteSession(sessionId)[1]
    /\ heap' = deleteSession(sessionId)[2]
    /\ Send(ws, << IF HasSession(sessionId) THEN SessionCancelled(sessionId)
                   ELSE SessionNotFound(sessionId) >>, 0)
    /\ UNCHANGED <<pipelines, now, readyState, cleanupInterval>>

handleSessionCancel(ws, sessionId) ==
    /\ Track(ws, sessionId)
    /\ sessions' = deleteSession(sessionId)[1]
    /\ heap' = deleteSession(sessionId)[2]
    /\ Send(ws, << SessionCancelled(sessionId) >>, 0)
    /\ UNCHANGED <<pipelines, now, readyState, cleanupInterval>>

UnknownMessageType(sessionId, type) ==
    ErrorEnvelope(sessionId, "UNKNOWN_MESSAGE_TYPE", <<"Unknown message type:", type>>)

\* mutant: a frame of an unknown type ends the connection
handleUnknown_closes(ws, sessionId, type) ==
    /\ Track(ws, sessionId)
    /\ Send(ws, << UnknownMessageType(sessionId, type) >>, 0)
    /\ readyState' = [readyState EXCEPT ![ws] = "CLOSED"]
    /\ UNCHANGED <<sessions, heap, pipelines, now, cleanupInterval>>

\* the default branch of the switch in handle
handleUnknown(ws, sessionId, type) ==
    /\ Track(ws, sessionId)
    /\ Send(ws, << UnknownMessageType(sessionId, type) >>, 0)
    /\ UNCHANGED <<sessions, heap, pipelines, now, readyState, cleanupInterval>>

\* mutant: the session of the connection that goes away is deleted
close_deletes(ws) ==
    /\ Receiving(ws)
    /\ readyState' = [readyState EXCEPT ![ws] = "CLOSED"]
    /\ clientSessions' = [clientSessions EXCEPT ![ws] = Unassociated]
    /\ IF clientSessions[ws] \in SessionIds
       THEN /\ sessions' = deleteSession(clientSessions[ws])[1]
            /\ heap' = deleteSession(clientSessions[ws])[2]
       ELSE UNCHANGED <<sessions, heap>>
    /\ UNCHANGED <<sent, pipelines, now, cleanupInterval>>

\* mutant: a frame that does not parse is answered as an unknown type
MessageParseError_unknownType ==
    [type |-> "error",
     data |-> [code |-> "UNKNOWN_MESSAGE_TYPE", message |-> "Failed to process message"]]

\* the envelope sent by the catch of the connection layer's message handler
MessageParseError ==
    [type |-> "error",
     data |-> [code |-> "MESSAGE_PARSE_ERROR", message |-> "Failed to process message"]]

\* mutant: a frame that does not parse deletes the session of its connection
handleMalformed_deletes(ws) ==
    /\ sent' = IF Open(ws)
               THEN [sent EXCEPT ![ws] =
                      [w \in DOMAIN @ \cup {ConnectionLayer} |->
                          Written(ws, w) \o (IF w = ConnectionLayer
                                              THEN << MessageParseError >> ELSE <<>>)]]
               ELSE sent
    /\ sessions' = IF clientSessions[ws] = Unassociated THEN sessions
                   ELSE deleteSession(clientSessions[ws])[1]
    /\ heap' = IF clientSessions[ws] = Unassociated THEN heap
               ELSE deleteSession(clientSessions[ws])[2]
    /\ UNCHANGED <<clientSessions, pipelines, now, readyState, cleanupInterval>>

\* the message handler of the connection layer for a frame whose text
\* JSON.parse rejects: the catch sends the parse error, and nothing else runs
handleMalformed(ws) ==
    /\ sent' = IF Open(ws)
               THEN [sent EXCEPT ![ws] =
                      [w \in DOMAIN @ \cup {ConnectionLayer} |->
                          Written(ws, w) \o (IF w = ConnectionLayer
                                              THEN << MessageParseError >> ELSE <<>>)]]
               ELSE sent
    /\ UNCHANGED <<sessions, heap, clientSessions, pipelines, now, readyState,
                   cleanupInterval>>

\* the server has not been stopped: its socket accepts connections
Listening == cleanupInterval # Cleared

\* mutant: stop leaves the interval running
stop_keepsInterval ==
    /\ readyState' = [ws \in Conns |->
                        IF readyState[ws] = "OPEN" THEN "CLOSING" ELSE readyState[ws]]
    /\ sessions' = [id \in SessionIds |-> NoSession]
    /\ heap' = [s \in 1..Len(heap) |->
                  IF \E id \in SessionIds : getSession(id) = s
                  THEN cleanup(heap[s]) ELSE heap[s]]
    /\ UNCHANGED <<clientSessions, sent, pipelines, now, cleanupInterval>>

\* WebSocketServer.stop: close() on every client, which starts the closing
\* handshake, close the server socket, and SessionManager.stop: the interval
\* is cleared and every session that is left is deleted
stop ==
    /\ readyState' = [ws \in Conns |->
                        IF readyState[ws] = "OPEN" THEN "CLOSING" ELSE readyState[ws]]
    /\ cleanupInterval' = Cleared
    /\ sessions' = [id \in SessionIds |-> NoSession]
    /\ heap' = [s \in 1..Len(heap) |->
                  IF \E id \in SessionIds : getSession(id) = s
                  THEN cleanup(heap[s]) ELSE heap[s]]
    /\ UNCHANGED <<clientSessions, sent, pipelines, now>>

\* the `close` event of a connection: forget its session id
close(ws) ==
    /\ Receiving(ws)
    /\ readyState' = [readyState EXCEPT ![ws] = "CLOSED"]
    /\ clientSessions' = [clientSessions EXCEPT ![ws] = Unassociated]
    /\ UNCHANGED <<sessions, heap, sent, pipelines, now, cleanupInterval>>

\* ------------------------------------------------ the pipeline's steps
Awaiting(k, pc) == k \in 1..Len(pipelines) /\ pipelines[k].pc = pc

Call(op, arg) == [op |-> op, arg |-> arg]

\* the catch of handleAudioEnd's try block
AudioEndError(sessionId) ==
    ErrorEnvelope(sessionId, "AUDIO_END_ERROR", "Failed to process audio")

\* the .catch attached to gptChunkHandler()
ProcessingError(sessionId) ==
    ErrorEnvelope(sessionId, "PROCESSING_ERROR", "Error processing audio response")

\* mutant: the invocation puts its Session back into the registry
transcribeReturns_registers(k, transcript) ==
    /\ Awaiting(k, "transcribe")
    /\ LET p == pipelines[k] IN
        /\ heap' = [heap EXCEPT ![p.session] = setTranscript(@, transcript)]
        /\ sessions' = [sessions EXCEPT ![p.sessionId] = p.session]
        /\ Send(p.ws, << TranscriptComplete(p.sessionId, transcript) >>, k)
        /\ pipelines' = [pipelines EXCEPT ![k] =
              [p EXCEPT !.sessionAt = getSession(p.sessionId),
                        !.transcript = transcript, !.pc = "stream",
                        !.calls = Append(@, Call("streamCompletion", transcript))]]
    /\ UNCHANGED <<clientSessions, now, readyState, cleanupInterval>>

\* transcribe resolves: store and send the transcript, then gptChunkHandler()
\* runs up to its first await, inside streamCompletion(transcript)
transcribeReturns(k, transcript) ==
    /\ Awaiting(k, "transcribe")
    /\ LET p == pipelines[k] IN
        /\ heap' = [heap EXCEPT ![p.session] = setTranscript(@, transcript)]
        /\ Send(p.ws, << TranscriptComplete(p.sessionId, transcript) >>, k)
        /\ pipelines' = [pipelines EXCEPT ![k] =
              [p EXCEPT !.sessionAt = getSession(p.sessionId),
                        !.transcript = transcript, !.pc = "stream",
                        !.calls = Append(@, Call("streamCompletion", transcript))]]
    /\ UNCHANGED <<sessions, clientSessions, now, readyState, cleanupInterval>>

\* mutant: the failure is reported and the handler goes on to gptChunkHandler()
transcribeFails_goesOn(k) ==
    /\ Awaiting(k, "transcribe")
    /\ LET p == pipelines[k] IN
        /\ Send(p.ws, << AudioEndError(p.sessionId) >>, k)
        /\ pipelines' = [pipelines EXCEPT ![k] =
              [p EXCEPT !.sessionAt = getSession(p.sessionId),
                        !.pc = "stream", !.failedAt = "transcribe",
                        !.calls = Append(@, Call("streamCompletion", p.transcript))]]
    /\ UNCHANGED <<sessions, heap, clientSessions, now, readyState, cleanupInterval>>

\* transcribe rejects: the catch of handleAudioEnd
transcribeFails(k) ==
    /\ Awaiting(k, "transcribe")
    /\ LET p == pipelines[k] IN
        /\ Send(p.ws, << AudioEndError(p.sessionId) >>, k)
        /\ pipelines' = [pipelines EXCEPT ![k] =
              [p EXCEPT !.sessionAt = getSession(p.sessionId),
                        !.pc = "failed", !.failedAt = "transcribe"]]
    /\ UNCHANGED <<sessions, heap, clientSessions, now, readyState, cleanupInterval>>

\* mutant: a fragment is sent only once the response holds more than it
OnLlmChunk_batched(sessionId, chunk, fullResponse) ==
    IF fullResponse = chunk THEN <<>> ELSE << LlmChunk(sessionId, fullResponse) >>

\* what the loop body of gptChunkHandler sends for one yielded fragment
OnLlmChunk(sessionId, chunk, fullResponse) == << LlmChunk(sessionId, chunk) >>

RECURSIVE SumOver(_, _)
SumOver(ps, field) ==
    IF ps = <<>> THEN 0
    ELSE (IF field = "yielded" THEN Len(Head(ps).yielded) ELSE Len(Head(ps).ttsFragments))
         + SumOver(Tail(ps), field)

FragmentsYielded == SumOver(pipelines, "yielded")
TtsFragmentsRead == SumOver(pipelines, "ttsFragments")

\* mutant: a fragment that cannot be sent makes the invocation fail
streamDelta_needsOpen(k, content) ==
    /\ Awaiting(k, "stream")
    /\ LET p == pipelines[k] IN
        IF content # <<>> /\ ~Open(p.ws)
        THEN /\ pipelines' = [pipelines EXCEPT ![k] =
                   [p EXCEPT !.sessionAt = getSession(p.sessionId),
                             !.pc = "failed", !.failedAt = "send"]]
             /\ UNCHANGED sent
        ELSE IF content # <<>>
        THEN /\ Send(p.ws, OnLlmChunk(p.sessionId, content, p.fullResponse \o content), k)
             /\ pipelines' = [pipelines EXCEPT ![k] =
                   [p EXCEPT !.sessionAt = getSession(p.sessionId),
                             !.yielded = Append(@, content),
                             !.fullResponse = @ \o content]]
        ELSE UNCHANGED <<pipelines, sent>>
    /\ UNCHANGED <<sessions, heap, clientSessions, now, readyState, cleanupInterval>>

\* the completion stream delivers one delta; streamCompletion yields it unless
\* its content is empty (then nothing changes), and the loop body of
\* gptChunkHandler handles the yield
streamDelta(k, content) ==
    /\ Awaiting(k, "stream")
    /\ LET p == pipelines[k] IN
        IF content # <<>>
        THEN /\ Send(p.ws, OnLlmChunk(p.sessionId, content, p.fullResponse \o content), k)
             /\ pipelines' = [pipelines EXCEPT ![k] =
                   [p EXCEPT !.sessionAt = getSession(p.sessionId),
                        !.yielded = Append(@, content),
                             !.fullResponse = @ \o content]]
        ELSE UNCHANGED <<pipelines, sent>>
    /\ UNCHANGED <<sessions, heap, clientSessions, now, readyState, cleanupInterval>>

\* mutant: the session is marked complete when the text is complete
streamEnds_completes(k) ==
    /\ Awaiting(k, "stream")
    /\ LET p == pipelines[k] IN
        /\ Send(p.ws, << LlmComplete(p.sessionId, p.fullResponse) >>, k)
        /\ heap' = [heap EXCEPT ![p.session] = setState(@, "complete")]
        /\ pipelines' = [pipelines EXCEPT ![k] =
              [p EXCEPT !.sessionAt = getSession(p.sessionId),
                        !.pc = "synth",
                        !.calls = Append(@, Call("synthesizeSpeech", p.fullResponse))]]
    /\ UNCHANGED <<sessions, clientSessions, now, readyState, cleanupInterval>>

\* mutant: llm.complete carries the session id its connection sent last
streamEnds_currentSession(k) ==
    /\ Awaiting(k, "stream")
    /\ LET p == pipelines[k] IN
        /\ Send(p.ws, << LlmComplete(clientSessions[p.ws], p.fullResponse) >>, k)
        /\ pipelines' = [pipelines EXCEPT ![k] =
              [p EXCEPT !.sessionAt = getSession(p.sessionId),
                        !.pc = "synth",
                        !.calls = Append(@, Call("synthesizeSpeech", p.fullResponse))]]
    /\ UNCHANGED <<sessions, heap, clientSessions, now, readyState, cleanupInterval>>

\* the completion stream ends: llm.complete, then synthesizeSpeech(fullResponse)
streamEnds(k) ==
    /\ Awaiting(k, "stream")
    /\ LET p == pipelines[k] IN
        /\ Send(p.ws, << LlmComplete(p.sessionId, p.fullResponse) >>, k)
        /\ pipelines' = [pipelines EXCEPT ![k] =
              [p EXCEPT !.sessionAt = getSession(p.sessionId),
                        !.pc = "synth",
                        !.calls = Append(@, Call("synthesizeSpeech", p.fullResponse))]]
    /\ UNCHANGED <<sessions, heap, clientSessions, now, readyState, cleanupInterval>>

\* mutant: the text is completed before the failure is reported
streamFails_completes(k) ==
    /\ Awaiting(k, "stream")
    /\ LET p == pipelines[k] IN
        /\ Send(p.ws, << LlmComplete(p.sessionId, p.fullResponse),
                         ProcessingError(p.sessionId) >>, k)
        /\ pipelines' = [pipelines EXCEPT ![k] =
              [p EXCEPT !.sessionAt = getSession(p.sessionId),
                        !.pc = "failed", !.failedAt = "streamCompletion"]]
    /\ UNCHANGED <<sessions, heap, clientSessions, now, readyState, cleanupInterval>>

\* streamCompletion throws, when it is created or between two deltas
streamFails(k) ==
    /\ Awaiting(k, "stream")
    /\ LET p == pipelines[k] IN
        /\ Send(p.ws, << ProcessingError(p.sessionId) >>, k)
        /\ pipelines' = [pipelines EXCEPT ![k] = 
              [p EXCEPT !.sessionAt = getSession(p.sessionId),
                        !.pc = "failed", !.failedAt = "streamCompletion"]]
    /\ UNCHANGED <<sessions, heap, clientSessions, now, readyState, cleanupInterval>>

\* sequences over S of length at most n
SeqsUpTo(S, n) == UNION {[1..m -> S] : m \in 0..n}

\* synthesizeSpeech: the fragments read from the response body, concatenated
synthesizeSpeech(fragments) == BufferConcat(fragments)

\* mutant: the completion signal is sent before the chunk loop
SendAudio_early(sessionId, audioBuffer) ==
    << AudioComplete(sessionId, audioBuffer) >> \o SendAudioChunks(sessionId, audioBuffer, 0)

\* what gptChunkHandler sends once the synthesized audio is there
SendAudio(sessionId, audioBuffer) ==
    SendAudioChunks(sessionId, audioBuffer, 0) \o << AudioComplete(sessionId, audioBuffer) >>

\* mutant: the audio is sent only for a session that is still registered
synthReturns_needsSession(k, fragments) ==
    /\ Awaiting(k, "synth")
    /\ LET p == pipelines[k]
           audioBuffer == synthesizeSpeech(fragments)
       IN
        IF getSession(p.sessionId) = p.session
        THEN /\ Send(p.ws, SendAudio(p.sessionId, audioBuffer), k)
             /\ heap' = [heap EXCEPT ![p.session] = setState(@, "complete")]
             /\ pipelines' = [pipelines EXCEPT ![k] =
                   [p EXCEPT !.sessionAt = getSession(p.sessionId),
                             !.pc = "done", !.ttsBuffer = audioBuffer,
                             !.ttsFragments = fragments]]
        ELSE /\ Send(p.ws, << SessionNotFound(p.sessionId) >>, k)
             /\ pipelines' = [pipelines EXCEPT ![k] =
                   [p EXCEPT !.sessionAt = getSession(p.sessionId), !.pc = "failed"]]
             /\ UNCHANGED heap
    /\ UNCHANGED <<sessions, clientSessions, now, readyState, cleanupInterval>>

\* mutant: the invocation completes the session its id is registered for now
synthReturns_byId(k, fragments) ==
    /\ Awaiting(k, "synth")
    /\ LET p == pipelines[k]
           audioBuffer == synthesizeSpeech(fragments)
           target == IF HasSession(p.sessionId) THEN getSession(p.sessionId)
                     ELSE p.session
       IN
        /\ Send(p.ws, SendAudio(p.sessionId, audioBuffer), k)
        /\ heap' = [heap EXCEPT ![target] = setState(@, "complete")]
        /\ pipelines' = [pipelines EXCEPT ![k] =
              [p EXCEPT !.sessionAt = getSession(p.sessionId),
                        !.pc = "done", !.ttsBuffer = audioBuffer,
                        !.ttsFragments = fragments]]
    /\ UNCHANGED <<sessions, clientSessions, now, readyState, cleanupInterval>>

\* synthesizeSpeech resolves: the chunk loop, audio.complete, state complete
synthReturns(k, fragments) ==
    /\ Awaiting(k, "synth")
    /\ LET p == pipelines[k]
           audioBuffer == synthesizeSpeech(fragments)
       IN
        /\ Send(p.ws, SendAudio(p.sessionId, audioBuffer), k)
        /\ heap' = [heap EXCEPT ![p.session] = setState(@, "complete")]
        /\ pipelines' = [pipelines EXCEPT ![k] =
              [p EXCEPT !.sessionAt = getSession(p.sessionId),
                        !.pc = "done", !.ttsBuffer = audioBuffer,
                        !.ttsFragments = fragments]]
    /\ UNCHANGED <<sessions, clientSessions, now, readyState, cleanupInterval>>

\* mutant: an invocation that fails deletes its session
synthFails_deletes(k) ==
    /\ Awaiting(k, "synth")
    /\ LET p == pipelines[k] IN
        /\ Send(p.ws, << ProcessingError(p.sessionId) >>, k)
        /\ sessions' = deleteSession(p.sessionId)[1]
        /\ heap' = deleteSession(p.sessionId)[2]
        /\ pipelines' = [pipelines EXCEPT ![k] =
              [p EXCEPT !.sessionAt = getSession(p.sessionId),
                        !.pc = "failed", !.failedAt = "synthesizeSpeech"]]
    /\ UNCHANGED <<clientSessions, now, readyState, cleanupInterval>>

\* mutant: a failed synthesis is not reported
synthFails_silent(k) ==
    /\ Awaiting(k, "synth")
    /\ LET p == pipelines[k] IN
        /\ pipelines' = [pipelines EXCEPT ![k] =
              [p EXCEPT !.sessionAt = getSession(p.sessionId),
                        !.pc = "failed", !.failedAt = "synthesizeSpeech"]]
    /\ UNCHANGED <<sessions, heap, clientSessions, sent, now, readyState,
                   cleanupInterval>>

\* synthesizeSpeech rejects: the .catch of gptChunkHandler()
synthFails(k) ==
    /\ Awaiting(k, "synth")
    /\ LET p == pipelines[k] IN
        /\ Send(p.ws, << ProcessingError(p.sessionId) >>, k)
        /\ pipelines' = [pipelines EXCEPT ![k] = 
              [p EXCEPT !.sessionAt = getSession(p.sessionId),
                        !.pc = "failed", !.failedAt = "synthesizeSpeech"]]
    /\ UNCHANGED <<sessions, heap, clientSessions, now, readyState, cleanupInterval>>

\* ---------------------------------------------------------------- Next
\* The steps of the server for inbound frames on the connections conns that
\* address the session ids ids, within the bounds B of the exploration: at most
\* B.msgs inbound frames (so fewer Session objects and chunks than that),
\* B.pipelines invocations that reach the pipeline, B.deltas yielded fragments
\* and B.tts audio fragments.
NextOn(conns, ids, B) ==
    \/ \E ws \in conns : Listening /\ connection(ws)
    \/ \E ws \in conns, id \in ids :
          /\ Open(ws) /\ Handled < B.msgs
          /\ handleSessionStart(ws, id)
    \/ \E ws \in conns, id \in ids, d \in ChunkData :
          /\ Open(ws) /\ Handled < B.msgs
          /\ handleAudioChunk(ws, id, ToBase64(d.chunk), d.sequenceNumber)
    \/ \E ws \in conns, id \in ids :
          /\ Open(ws) /\ Handled < B.msgs
          /\ HasSession(id) => Len(pipelines) < B.pipelines
          /\ handleAudioEnd(ws, id)
    \/ \E ws \in conns, id \in ids :
          /\ Open(ws) /\ Handled < B.msgs
          /\ handleSessionCancel(ws, id)
    \/ \E k \in 1..Len(pipelines), t \in Transcripts : transcribeReturns(k, t)
    \/ \E k \in 1..Len(pipelines) : transcribeFails(k)
    \/ \E k \in 1..Len(pipelines), d \in Deltas :
          /\ FragmentsYielded < B.deltas
          /\ streamDelta(k, d)
    \/ \E k \in 1..Len(pipelines) : streamEnds(k)
    \/ \E k \in 1..Len(pipelines) : streamFails(k)
    \/ \E k \in 1..Len(pipelines),
          f \in SeqsUpTo(TtsFragments, B.tts - TtsFragmentsRead) :
          synthReturns(k, f)
    \/ \E k \in 1..Len(pipelines) : synthFails(k)

\* one client and one session id: the pipeline, also run twice on one session
Bounds ==
    [msgs |-> MaxMsgs, pipelines |-> MaxPipelines, deltas |-> MaxDeltas,
     tts |-> MaxTtsFrags]

Next == NextOn({"c1"}, {"s1"}, Bounds)

Spec == Init /\ [][Next]_vars

\* one client and one session id, more frames and short pipelines: a session
\* that gets audio again after an audio.end
ReuseBounds == [msgs |-> ReuseMsgs, pipelines |-> 2, deltas |-> 1, tts |-> 1]

NextReuse == NextOn({"c1"}, {"s1"}, ReuseBounds)

SpecReuse == Init /\ [][NextReuse]_vars

\* two clients and two session ids, with one short pipeline
RoutingBounds == [msgs |-> RoutingMsgs, pipelines |-> 1, deltas |-> 1, tts |-> 1]

NextRouting == NextOn(Conns, SessionIds, RoutingBounds)

SpecRouting == Init /\ [][NextRouting]_vars

\* two clients and one session id, with frames of a type the dispatcher does
\* not know and clients that go away
UnknownTypes == {"session.pause"}

DispatchBounds == [msgs |-> DispatchMsgs, pipelines |-> 1, deltas |-> 1, tts |-> 1]

NextDispatch ==
    \/ NextOn(Conns, {"s1"}, DispatchBounds)
    \/ \E ws \in Conns, type \in UnknownTypes :
          /\ Open(ws) /\ Handled < DispatchBounds.msgs
          /\ handleUnknown(ws, "s1", type)
    \/ \E ws \in Conns : close(ws)

SpecDispatch == Init /\ [][NextDispatch]_vars

\* one client and two session ids while the clock runs and the cleanup
\* interval fires: now is 0, 1, .. or expirationTime, expirationTime + 1, ..
TickSteps == {1, expirationTime}

\* there the frames open, end and cancel sessions, and the external calls of
\* the one pipeline succeed with an empty completion and no audio
NextExpiry ==
    \/ connection("c1")
    \/ \E id \in SessionIds :
          /\ Open("c1") /\ Handled < ExpiryMsgs
          /\ handleSessionStart("c1", id)
    \/ \E id \in SessionIds :
          /\ Open("c1") /\ Handled < ExpiryMsgs
          /\ HasSession(id) => Len(pipelines) < 1
          /\ handleAudioEnd("c1", id)
    \/ \E id \in SessionIds :
          /\ Open("c1") /\ Handled < ExpiryMsgs
          /\ handleSessionCancel("c1", id)
    \/ \E k \in 1..Len(pipelines), t \in Transcripts : transcribeReturns(k, t)
    \/ \E k \in 1..Len(pipelines) : streamEnds(k)
    \/ \E k \in 1..Len(pipelines) : synthReturns(k, <<>>)
    \/ \E d \in TickSteps :
          /\ now + d <= expirationTime + MaxDrift
          /\ (now + d) % expirationTime <= MaxDrift
          /\ Tick(d)
    \/ cleanupSweep

SpecExpiry == Init /\ [][NextExpiry]_vars

\* one client and one session id over the life of the server: frames of
\* every kind, the client going away, the clock passing the expiration time,
\* the sweep, and stop, after which a frame that was on its way can still
\* start a session
LifecycleBounds == [msgs |-> LifecycleMsgs, pipelines |-> 1, deltas |-> 1, tts |-> 1]

NextLifecycle ==
    \/ NextOn({"c1"}, {"s1"}, LifecycleBounds)
    \/ \E id \in {"s1"}, type \in UnknownTypes :
          /\ Open("c1") /\ Handled < LifecycleBounds.msgs
          /\ handleUnknown("c1", id, type)
    \/ /\ Open("c1") /\ Handled < LifecycleBounds.msgs
       /\ handleMalformed("c1")
    \/ close("c1")
    \/ /\ now + expirationTime + 1 <= expirationTime + MaxDrift
       /\ Tick(expirationTime + 1)
    \/ cleanupSweep
    \/ stop
    \/ \E id \in {"s1"} :
          /\ readyState["c1"] = "CLOSING" /\ Len(heap) < LifecycleBounds.msgs
          /\ handleSessionStart("c1", id)

SpecLifecycle == Init /\ [][NextLifecycle]_vars

\* one client that stays connected and one session id, with every external
\* call returning or failing in the end and the event loop running every
\* continuation that is ready
FairBounds == [msgs |-> FairMsgs, pipelines |-> 2, deltas |-> 1, tts |-> 1]

NextFair == NextOn({"c1"}, {"s1"}, FairBounds)

\* transcribe resolves or rejects
TranscribeSettles(k) ==
    \/ \E t \in Transcripts : transcribeReturns(k, t)
    \/ transcribeFails(k)

\* the completion stream ends or throws
StreamSettles(k) == streamEnds(k) \/ streamFails(k)

\* synthesizeSpeech resolves or rejects
SynthSettles(k) ==
    \/ \E f \in SeqsUpTo(TtsFragments, FairBounds.tts) : synthReturns(k, f)
    \/ synthFails(k)

Fairness ==
    \A k \in 1..FairBounds.pipelines :
        /\ WF_vars(TranscribeSettles(k))
        /\ WF_vars(StreamSettles(k))
        /\ WF_vars(SynthSettles(k))

SpecFair == Init /\ [][NextFair]_vars /\ Fairness

\* one client that runs two sessions at once: it starts sessions and ends
\* their audio, and sends no chunks and no cancellations
InterleaveBounds == [msgs |-> InterleaveMsgs, pipelines |-> 2, deltas |-> 2, tts |-> 1]

NextInterleave ==
    \/ Listening /\ connection("c1")
    \/ \E id \in SessionIds :
          /\ Open("c1") /\ Handled < InterleaveBounds.msgs
          /\ handleSessionStart("c1", id)
    \/ \E id \in SessionIds :
          /\ Open("c1") /\ Handled < InterleaveBounds.msgs
          /\ HasSession(id) => Len(pipelines) < InterleaveBounds.pipelines
          /\ handleAudioEnd("c1", id)
    \/ \E k \in 1..Len(pipelines), t \in Transcripts : transcribeReturns(k, t)
    \/ \E k \in 1..Len(pipelines) : transcribeFails(k)
    \/ \E k \in 1..Len(pipelines), d \in Deltas :
          /\ FragmentsYielded < InterleaveBounds.deltas
          /\ streamDelta(k, d)
    \/ \E k \in 1..Len(pipelines) : streamEnds(k)
    \/ \E k \in 1..Len(pipelines) : streamFails(k)
    \/ \E k \in 1..Len(pipelines),
          f \in SeqsUpTo(TtsFragments, InterleaveBounds.tts - TtsFragmentsRead) :
          synthReturns(k, f)
    \/ \E k \in 1..Len(pipelines) : synthFails(k)

SpecInterleave == Init /\ [][NextInterleave]_vars

\* ------------------------------------------------ broadcastToSession
\* the reply to a frame that has no sessionId: JSON.stringify leaves the
\* undefined sessionId out
UnknownMessageTypeNoId(type) ==
    [type |-> "error", timestamp |-> now,
     data |-> [code |-> "UNKNOWN_MESSAGE_TYPE",
               message |-> <<"Unknown message type:", type>>]]

\* a frame that parses, has no sessionId and has a type the switch does not
\* know: `if (sessionId)` skips clientSessions.set, and the default branch
\* of handle answers
handleUnknownNoId(ws, type) ==
    /\ Send(ws, << UnknownMessageTypeNoId(type) >>, 0)
    /\ UNCHANGED <<sessions, heap, clientSessions, pipelines, now, readyState,
                   cleanupInterval>>

\* the messages that callers of broadcastToSession pass
Notices == {[type |-> "notice", data |-> [message |-> "n"]]}

\* mutant: the broadcast goes to every open client
broadcastToSession_all(sessionId, message) ==
    /\ sent' = [c \in Conns |->
                  IF readyState[c] = "OPEN"
                  THEN [w \in DOMAIN sent[c] \cup {ConnectionLayer} |->
                          Written(c, w) \o (IF w = ConnectionLayer
                                              THEN << message >> ELSE <<>>)]
                  ELSE sent[c]]
    /\ UNCHANGED <<sessions, heap, clientSessions, pipelines, now, readyState,
                   cleanupInterval>>

\* WebSocketServer.broadcastToSession: send to every client whose entry in
\* clientSessions is sessionId and whose socket is open
broadcastToSession(sessionId, message) ==
    /\ sent' = [c \in Conns |->
                  IF clientSessions[c] = sessionId /\ readyState[c] = "OPEN"
                  THEN [w \in DOMAIN sent[c] \cup {ConnectionLayer} |->
                          Written(c, w) \o (IF w = ConnectionLayer
                                              THEN << message >> ELSE <<>>)]
                  ELSE sent[c]]
    /\ UNCHANGED <<sessions, heap, clientSessions, pipelines, now, readyState,
                   cleanupInterval>>

\* two clients, two session ids, frames without a session id, closing
\* connections and broadcasts, up to the first broadcast that is delivered;
\* the external calls of a pipeline invocation all succeed
BroadcastBounds == [msgs |-> BroadcastMsgs, pipelines |-> 1, deltas |-> 1, tts |-> 1]

NextBroadcast ==
    \/ \E ws \in Conns : Listening /\ connection(ws)
    \/ \E ws \in Conns, id \in SessionIds :
          /\ Open(ws) /\ Handled < BroadcastBounds.msgs
          /\ \/ handleSessionStart(ws, id)
             \/ handleSessionCancel(ws, id)
             \/ \E d \in ChunkData :
                   handleAudioChunk(ws, id, ToBase64(d.chunk), d.sequenceNumber)
             \/ /\ HasSession(id) => Len(pipelines) < BroadcastBounds.pipelines
                /\ handleAudioEnd(ws, id)
    \/ \E k \in 1..Len(pipelines), t \in Transcripts : transcribeReturns(k, t)
    \/ \E k \in 1..Len(pipelines) : streamEnds(k)
    \/ \E k \in 1..Len(pipelines) : synthReturns(k, <<>>)
    \/ \E ws \in Conns, type \in UnknownTypes :
          /\ Open(ws) /\ Handled < BroadcastBounds.msgs
          /\ handleUnknownNoId(ws, type)
    \/ \E ws \in Conns :
          /\ Open(ws) /\ Handled < BroadcastBounds.msgs
          /\ handleMalformed(ws)
    \/ \E ws \in Conns : close(ws)
    \/ stop
    \/ \E id \in SessionIds, m \in Notices :
          /\ \A c \in Conns :
                \A i \in 1..Len(Written(c, ConnectionLayer)) :
                   Written(c, ConnectionLayer)[i].type # "notice"
          /\ broadcastToSession(id, m)

SpecBroadcast == Init /\ [][NextBroadcast]_vars

\* ====================================================== properties
Invocations == 1..Len(pipelines)

\* the envelopes invocation k has written, to the connection of its audio.end
Emitted(k) == Written(pipelines[k].ws, k)

\* invocation k has written to no other connection
OnlyOwnConnection(k) ==
    \A ws \in Conns \ {pipelines[k].ws} : Written(ws, k) = <<>>

OfType(log, type) == SelectSeq(log, LAMBDA e : e.type = type)

Count(log, type) == Len(OfType(log, type))

Phase(type) ==
    CASE type = "transcript.complete" -> 1
      [] type = "llm.chunk" -> 2
      [] type = "llm.complete" -> 3
      [] type = "audio.chunk" -> 4
      [] type = "audio.complete" -> 5
      [] OTHER -> 6

PhasesInOrder(log) ==
    \A i \in 1..(Len(log) - 1) : Phase(log[i].type) <= Phase(log[i + 1].type)

RECURSIVE Flatten(_)
Flatten(texts) ==
    IF texts = <<>> THEN <<>> ELSE Head(texts) \o Flatten(Tail(texts))

RECURSIVE SumBufLen(_)
SumBufLen(bufs) ==
    IF bufs = <<>> THEN 0 ELSE BufLen(Head(bufs)) + SumBufLen(Tail(bufs))

Contents(log) == [i \in 1..Len(log) |-> log[i].data.content]
Payloads(log) == [i \in 1..Len(log) |-> FromBase64(log[i].data.chunk)]
SequenceNumbers(log) == [i \in 1..Len(log) |-> log[i].data.sequenceNumber]

\* C1: the envelopes of an invocation come in the order transcript.complete,
\* llm.chunk*, llm.complete, audio.chunk*, audio.complete, no envelope of a
\* later phase before one of an earlier phase, and an invocation whose three
\* calls succeeded has written exactly one transcript.complete, one
\* llm.complete and one audio.complete (and no error).
C1_PipelineOrder ==
    \A k \in Invocations :
        LET log == Emitted(k) IN
        /\ PhasesInOrder(log)
        /\ Count(log, "transcript.complete") <= 1
        /\ Count(log, "llm.complete") <= 1
        /\ Count(log, "audio.complete") <= 1
        /\ pipelines[k].pc = "done" =>
              /\ Count(log, "transcript.complete") = 1
              /\ Count(log, "llm.complete") = 1
              /\ Count(log, "audio.complete") = 1
              /\ Count(log, "error") = 0
              /\ log[1].type = "transcript.complete"
              /\ log[Len(log)].type = "audio.complete"

C1_Witness ==
    \E k \in Invocations :
        /\ pipelines[k].pc = "done"
        /\ Count(Emitted(k), "llm.chunk") = 2
        /\ Count(Emitted(k), "audio.chunk") = 2

\* C2: the buffer passed to transcribe is the concatenation, in arrival
\* order, of the payloads of all audio.chunk messages the session had
\* accepted when the audio.end arrived.
C2_TranscribeGetsAllChunks ==
    \A k \in Invocations :
        /\ pipelines[k].calls[1].op = "transcribe"
        /\ pipelines[k].calls[1].arg = BufferConcat(pipelines[k].accepted)

\* C3: the i-th llm.chunk of an invocation carries the i-th fragment that
\* streamCompletion yielded, and the fullText of its llm.complete is the
\* concatenation of the contents of its llm.chunk envelopes.
C3_LlmChunksAreFragments ==
    \A k \in Invocations :
        LET log == Emitted(k)
            chunks == Contents(OfType(log, "llm.chunk"))
            complete == OfType(log, "llm.complete")
        IN /\ chunks = pipelines[k].yielded
           /\ \A i \in 1..Len(complete) : complete[i].data.fullText = Flatten(chunks)

C3_Witness ==
    \E k \in Invocations :
        /\ Count(Emitted(k), "llm.complete") = 1
        /\ pipelines[k].yielded = << <<"b">>, <<"a">> >>

\* C4: the sequence numbers of the audio.chunk envelopes of one invocation
\* are 0, 1, 2, ... in the order sent, whatever other invocations do.
C4_SequenceNumbersFromZero ==
    \A k \in Invocations :
        LET nums == SequenceNumbers(OfType(Emitted(k), "audio.chunk")) IN
        \A i \in 1..Len(nums) : nums[i] = i - 1

\* the second of two invocations on one Session object has sent two audio
\* chunks while the first is still waiting for its synthesized audio
C4_Witness ==
    /\ Len(pipelines) = 2
    /\ pipelines[1].session = pipelines[2].session
    /\ pipelines[1].pc = "synth"
    /\ Count(Emitted(2), "audio.chunk") = 2

C6_TotalSizeIsBytesSent ==
    \A k \in Invocations :
        LET log == Emitted(k)
            complete == OfType(log, "audio.complete")
        IN \A i \in 1..Len(complete) :
              /\ complete[i].data.totalSize
                   = SumBufLen(Payloads(OfType(log, "audio.chunk")))
              /\ complete[i].data.totalSize = SumBufLen(pipelines[k].ttsFragments)

C6_Witness ==
    \E k \in Invocations :
        LET complete == OfType(Emitted(k), "audio.complete") IN
        /\ Len(complete) = 1
        /\ complete[1].data.totalSize = chunkSize + 1
        /\ Count(Emitted(k), "audio.chunk") = 2

\* C7: an invocation whose transcribe failed has written one error envelope
\* and nothing else, and has called neither streamCompletion nor
\* synthesizeSpeech.
C7_TranscribeFailureOnlyError ==
    \A k \in Invocations :
        pipelines[k].failedAt = "transcribe" =>
            /\ Len(Emitted(k)) = 1
            /\ Emitted(k)[1].type = "error"
            /\ OnlyOwnConnection(k)
            /\ pipelines[k].pc = "failed"
            /\ \A i \in 1..Len(pipelines[k].calls) :
                  pipelines[k].calls[i].op = "transcribe"

\* the transcribe of one invocation failed while another ran to its end
C7_Witness ==
    \E k, j \in Invocations :
        /\ pipelines[k].failedAt = "transcribe"
        /\ pipelines[j].pc = "done"

\* C8: after a stage of an invocation has failed and its error envelope is
\* sent, the state of the invocation's session is error.
C8_FailureSetsErrorState ==
    \A k \in Invocations :
        pipelines[k].failedAt # "none" => heap[pipelines[k].session].state = "error"

\* C9: the failure of any of the three calls is reported with the code
\* PROCESSING_ERROR.
C9_FailureIsProcessingError ==
    \A k \in Invocations :
        pipelines[k].failedAt # "none" =>
            LET errors == OfType(Emitted(k), "error") IN
            /\ Len(errors) = 1
            /\ errors[1].data.code = "PROCESSING_ERROR"

\* the step handles an audio.chunk or an audio.end that arrived on ws for id
AudioFrameStep(ws, id) ==
    \/ handleAudioEnd(ws, id)
    \/ \E d \in ChunkData : handleAudioChunk(ws, id, ToBase64(d.chunk), d.sequenceNumber)

\* the step writes the envelope e to ws as a direct reply, and nothing else
\* to any connection
OnlyReply(ws, e) ==
    /\ Written(ws, 0)' = Append(Written(ws, 0), e)
    /\ \A c \in Conns, w \in ConnectionLayer..Len(pipelines') :
          (c # ws \/ w # 0) => Written(c, w)' = Written(c, w)

\* C10: handling an audio.chunk or audio.end whose session id is not in the
\* registry writes one error envelope with code SESSION_NOT_FOUND to the
\* connection the frame came from and nothing else, and leaves the registry,
\* every Session object and the pipeline invocations (their external calls)
\* as they were.
C10_AbsentSessionRejected ==
    [][\A ws \in Conns, id \in SessionIds :
          (~HasSession(id) /\ AudioFrameStep(ws, id)) =>
              /\ \E e \in {Written(ws, 0)'[Len(Written(ws, 0)')]} :
                    /\ e.type = "error"
                    /\ e.sessionId = id
                    /\ e.data.code = "SESSION_NOT_FOUND"
                    /\ OnlyReply(ws, e)
              /\ sessions' = sessions
              /\ heap' = heap
              /\ pipelines' = pipelines]_vars

\* an audio frame for an unknown id was refused on c2 while the other id is
\* registered and its pipeline is in flight for the client on c1
C10_Witness ==
    /\ Len(Written("c2", 0)) > 0
    /\ Written("c2", 0)[Len(Written("c2", 0))].type = "error"
    /\ Written("c2", 0)[Len(Written("c2", 0))].sessionId = "s2"
    /\ ~HasSession("s2")
    /\ HasSession("s1")
    /\ Len(pipelines) = 1
    /\ pipelines[1].ws = "c1"
    /\ pipelines[1].pc = "stream"

\* the last direct reply written to ws once the step is done
LastReply(ws) == Written(ws, 0)'[Len(Written(ws, 0)')]

\* the step writes one direct reply to ws, of this type, for this id, and
\* nothing else to any connection
RepliesWith(ws, id, type) ==
    /\ LastReply(ws).type = type
    /\ LastReply(ws).sessionId = id
    /\ OnlyReply(ws, LastReply(ws))

\* the step handles a frame of an unknown type that arrived on ws for id
UnknownFrameStep(ws, id) == \E type \in UnknownTypes : handleUnknown(ws, id, type)

\* the step handles some inbound frame that arrived on ws for id
InboundFrameStep(ws, id) ==
    \/ handleSessionStart(ws, id)
    \/ AudioFrameStep(ws, id)
    \/ handleSessionCancel(ws, id)
    \/ UnknownFrameStep(ws, id)

\* C11 as it was stated: handling a frame of any type whose session id is
\* not in the registry writes one error envelope with code SESSION_NOT_FOUND
\* and changes neither the registry nor anything else.
C11_AnyFrameRejected ==
    [][\A ws \in Conns, id \in SessionIds :
          (~HasSession(id) /\ InboundFrameStep(ws, id)) =>
              /\ RepliesWith(ws, id, "error")
              /\ LastReply(ws).data.code = "SESSION_NOT_FOUND"
              /\ sessions' = sessions
              /\ heap' = heap
              /\ pipelines' = pipelines]_vars

\* C11: what a frame whose session id is not in the registry yields depends
\* on its type, and every such frame gets exactly one direct reply: an
\* audio.chunk or audio.end gets the error SESSION_NOT_FOUND, a session.cancel
\* gets session.cancelled, a frame of an unknown type gets the error
\* UNKNOWN_MESSAGE_TYPE, and these three leave the registry and every Session
\* object as they were; a session.start gets session.ready and registers a
\* new Session under the id. None of them touches a pipeline invocation.
C11_AbsentSessionByType ==
    [][\A ws \in Conns, id \in SessionIds :
          ~HasSession(id) =>
              /\ AudioFrameStep(ws, id) =>
                    /\ RepliesWith(ws, id, "error")
                    /\ LastReply(ws).data.code = "SESSION_NOT_FOUND"
                    /\ UNCHANGED <<sessions, heap, pipelines>>
              /\ handleSessionCancel(ws, id) =>
                    /\ RepliesWith(ws, id, "session.cancelled")
                    /\ UNCHANGED <<sessions, heap, pipelines>>
              /\ UnknownFrameStep(ws, id) =>
                    /\ RepliesWith(ws, id, "error")
                    /\ LastReply(ws).data.code = "UNKNOWN_MESSAGE_TYPE"
                    /\ UNCHANGED <<sessions, heap, pipelines>>
              /\ handleSessionStart(ws, id) =>
                    /\ RepliesWith(ws, id, "session.ready")
                    /\ HasSession(id)'
                    /\ heap' = Append(heap, NewSession(id, now))
                    /\ UNCHANGED pipelines]_vars

\* no session was ever registered, a session.cancel was answered with
\* session.cancelled on c2 and a frame of an unknown type with an error on c1
C11_Witness ==
    /\ heap = <<>>
    /\ Count(Written("c2", 0), "session.cancelled") = 1
    /\ Count(Written("c1", 0), "error") = 1
    /\ Written("c1", 0)[1].data.code = "UNKNOWN_MESSAGE_TYPE"

\* C12: a step that handles session.cancel for an id leaves the id absent
\* from the registry, and an absent id becomes present again only by a step
\* that handles session.start for it: no step of a pipeline invocation, in
\* flight or not, puts a session into the registry.
C12_CancelledStaysAbsent ==
    [][\A id \in SessionIds :
          /\ (\E ws \in Conns : handleSessionCancel(ws, id)) => ~HasSession(id)'
          /\ (~HasSession(id) /\ HasSession(id)') =>
                \E ws \in Conns : handleSessionStart(ws, id)]_vars

\* the session was cancelled while its pipeline was in flight, and the
\* pipeline went on to its end with the id absent
C12_Witness ==
    /\ ~HasSession("s1")
    /\ Count(Written("c1", 0), "session.cancelled") = 1
    /\ \E k \in Invocations :
          /\ pipelines[k].pc = "done"
          /\ pipelines[k].sessionAt = NoSession
          /\ Count(Emitted(k), "llm.chunk") = 1

\* C13: a sweep removes a registered session exactly when its age, now minus
\* createdAt, is greater than expirationTime, whatever its state; a session
\* that is not older stays registered, the same object and untouched, and
\* the sweep registers nothing.
C13_SweepRemovesExactlyExpired ==
    [][cleanupSweep =>
          \A id \in SessionIds :
              /\ ~HasSession(id) => ~HasSession(id)'
              /\ HasSession(id) =>
                    LET s == getSession(id) IN
                    /\ ~HasSession(id)' <=> (now - heap[s].createdAt > expirationTime)
                    /\ HasSession(id)' => (sessions'[id] = s /\ heap'[s] = heap[s])]_vars

\* a sweep has removed the session of s1, which was one millisecond older
\* than expirationTime, and kept the session of s2, which was exactly
\* expirationTime old
C13_Witness ==
    /\ Len(heap) = 2
    /\ heap[1].sessionId = "s1" /\ ~HasSession("s1")
    /\ getSession("s2") = 2
    /\ cleanupInterval = heap[1].createdAt + expirationTime + 1
    /\ cleanupInterval = heap[2].createdAt + expirationTime

\* the Session of invocation k is no longer the one registered under its id,
\* or was not at the invocation's latest step
Orphaned(k) ==
    \/ getSession(pipelines[k].sessionId) # pipelines[k].session
    \/ pipelines[k].sessionAt # pipelines[k].session

InvocationsOn(s) == {k \in Invocations : pipelines[k].session = s}

\* a session on which every invocation has ended with audio.complete, and at
\* least one has, is in state complete
CompleteWhenAllDone ==
    \A s \in 1..Len(heap) :
        (InvocationsOn(s) # {} /\ \A k \in InvocationsOn(s) : pipelines[k].pc = "done")
            => heap[s].state = "complete"

\* C15: the step that handles audio.end for a registered session leaves its
\* state processing and the transcribe call just made; a step makes a
\* session's state complete only if it writes the audio.complete of an
\* invocation on that session; the step in which an invocation ends without a
\* failure leaves the state complete, and so it is whenever every invocation
\* on the session has ended that way.
C15_ProcessingThenComplete ==
    [][/\ \A ws \in Conns, id \in SessionIds :
             (HasSession(id) /\ handleAudioEnd(ws, id)) =>
                 /\ heap'[getSession(id)].state = "processing"
                 /\ Len(pipelines') = Len(pipelines) + 1
                 /\ pipelines'[Len(pipelines')].session = getSession(id)
                 /\ pipelines'[Len(pipelines')].pc = "transcribe"
                 /\ Len(pipelines'[Len(pipelines')].calls) = 1
                 /\ pipelines'[Len(pipelines')].calls[1].op = "transcribe"
       /\ \A s \in 1..Len(heap) :
             (heap[s].state # "complete" /\ heap'[s].state = "complete") =>
                 \E k \in InvocationsOn(s) :
                     /\ Count(Emitted(k), "audio.complete") = 0
                     /\ Count(Emitted(k)', "audio.complete") = 1
       /\ \A k \in Invocations :
             (pipelines[k].pc # "done" /\ pipelines'[k].pc = "done") =>
                 heap'[pipelines[k].session].state = "complete"
       /\ CompleteWhenAllDone']_vars

\* two invocations on one session, one after the other, have both ended
\* with audio.complete and the session's state is complete
C15_Witness ==
    /\ Len(pipelines) = 2
    /\ pipelines[1].session = pipelines[2].session
    /\ pipelines[1].pc = "done" /\ pipelines[2].pc = "done"
    /\ Len(pipelines[2].accepted) > Len(pipelines[1].accepted)
    /\ heap[pipelines[1].session].state = "complete"

\* C16: no step changes the state of a Session object whose state is complete
\* or error.
C16_TerminalStatesStay ==
    [][\A s \in 1..Len(heap) :
          heap[s].state \in {"complete", "error"} => heap'[s].state = heap[s].state]_vars

\* C17: the transcript of a Session object is set at most once: at most one
\* invocation on it got a result from transcribe and stored it.
C17_TranscriptSetOnce ==
    \A s \in 1..Len(heap) :
        Cardinality({k \in InvocationsOn(s) :
                        Count(Emitted(k), "transcript.complete") = 1}) <= 1

\* C18: when an invocation has written llm.complete, the llmResponse of its
\* Session object is the fullText of that envelope.
C18_ResponseTextIsFullText ==
    \A k \in Invocations :
        LET complete == OfType(Emitted(k), "llm.complete") IN
        \A i \in 1..Len(complete) :
            heap[pipelines[k].session].llmResponse = complete[i].data.fullText

\* C19: handling a frame of an unknown type writes one error envelope with
\* code UNKNOWN_MESSAGE_TYPE to the connection the frame came from and
\* nothing else, leaves every connection as open or closed as it was, and
\* leaves the registry, every Session object and the pipeline invocations
\* as they were, whether the frame's session id is registered or not.
C19_UnknownTypeRejected ==
    [][\A ws \in Conns, id \in SessionIds :
          UnknownFrameStep(ws, id) =>
              /\ RepliesWith(ws, id, "error")
              /\ LastReply(ws).data.code = "UNKNOWN_MESSAGE_TYPE"
              /\ Open(ws)'
              /\ UNCHANGED <<readyState, sessions, heap, pipelines>>]_vars

\* a frame of an unknown type for s1 was refused on c2, which is still open,
\* while s1 is registered and its pipeline is in flight for the client on c1
C19_Witness ==
    /\ Open("c2")
    /\ Len(Written("c2", 0)) = 1
    /\ Written("c2", 0)[1].type = "error"
    /\ Written("c2", 0)[1].data.code = "UNKNOWN_MESSAGE_TYPE"
    /\ HasSession("s1")
    /\ Len(pipelines) = 1
    /\ pipelines[1].ws = "c1"
    /\ pipelines[1].pc = "stream"

\* C20: a session.start can be handled in every state, on any open
\* connection and for any id, however many ids are registered; the step
\* writes one session.ready and nothing else, and leaves under the id a new
\* Session object in state recording with no audio chunks, whether or not the
\* id was registered; the other ids, the Session objects that existed and
\* the pipeline invocations are as they were.
C20_StartAlwaysFresh ==
    [][\A ws \in Conns, id \in SessionIds :
          /\ Open(ws) => ENABLED handleSessionStart(ws, id)
          /\ handleSessionStart(ws, id) =>
                /\ RepliesWith(ws, id, "session.ready")
                /\ HasSession(id)'
                /\ sessions'[id] = Len(heap) + 1
                /\ heap'[sessions'[id]] = NewSession(id, now)
                /\ heap'[sessions'[id]].state = "recording"
                /\ heap'[sessions'[id]].audioChunks = <<>>
                /\ \A other \in SessionIds \ {id} : sessions'[other] = sessions[other]
                /\ \A s \in 1..Len(heap) : heap'[s] = heap[s]
                /\ UNCHANGED pipelines]_vars

\* a session.start for s1 has replaced a session of s1 that was processing
\* with buffered audio, its pipeline in flight, by a new one
C20_Witness ==
    /\ Len(heap) = 2
    /\ getSession("s1") = 2
    /\ heap[2] = NewSession("s1", now)
    /\ heap[1].sessionId = "s1"
    /\ heap[1].state = "processing"
    /\ heap[1].audioChunks # <<>>
    /\ Len(pipelines) = 1 /\ pipelines[1].session = 1

\* C21: the step that handles an audio.chunk for a registered session writes
\* one audio.received to the connection the chunk came from, at the end of
\* what was written there, carrying the sequence number of that chunk as the
\* client gave it, and nothing else to any connection.
C21_AckEchoesSequenceNumber ==
    [][\A ws \in Conns, id \in SessionIds, d \in ChunkData :
          (HasSession(id)
             /\ handleAudioChunk(ws, id, ToBase64(d.chunk), d.sequenceNumber)) =>
              /\ RepliesWith(ws, id, "audio.received")
              /\ LastReply(ws).data.sequenceNumber = d.sequenceNumber
              /\ heap'[getSession(id)].audioChunks
                    = Append(heap[getSession(id)].audioChunks, d.chunk)]_vars

\* three chunks that the client numbered 1, 0, 1 were accepted in that order
\* and acknowledged with 1, 0, 1
C21_Witness ==
    /\ HasSession("s1")
    /\ heap[getSession("s1")].audioChunks
          = << << <<"x", 1>> >>, << <<"y", 2>> >>, << <<"x", 1>> >> >>
    /\ SequenceNumbers(OfType(Written("c1", 0), "audio.received")) = <<1, 0, 1>>

\* C22: the step in which a connection closes removes the session id
\* recorded for that connection and nothing else: the ids recorded for the
\* other connections, the registry, every Session object (state, transcript,
\* audio chunks), the pipeline invocations and what was written are as they
\* were.
C22_CloseDropsAssociationOnly ==
    [][\A ws \in Conns :
          close(ws) =>
              /\ clientSessions'[ws] = Unassociated
              /\ \A c \in Conns \ {ws} : clientSessions'[c] = clientSessions[c]
              /\ UNCHANGED <<sessions, heap, pipelines, sent>>]_vars

\* the client on c1 started s1 and its pipeline and went away; s1 is still
\* registered, in state processing, and took a chunk from the client on c2
C22_Witness ==
    /\ readyState["c1"] = "CLOSED"
    /\ clientSessions["c1"] = Unassociated
    /\ Count(Written("c1", 0), "session.ready") = 1
    /\ HasSession("s1")
    /\ heap[getSession("s1")].state = "processing"
    /\ Len(pipelines) = 1 /\ pipelines[1].ws = "c1"
    /\ Len(heap[getSession("s1")].audioChunks) > Len(pipelines[1].accepted)
    /\ Count(Written("c2", 0), "audio.received") = 1

\* the server has been stopped
Stopped == cleanupInterval = Cleared

\* C23: the step that stops the server leaves the registry without any
\* session and the cleanup interval cleared; once it is cleared it stays
\* cleared, and no step is a sweep.
C23_StopEmptiesAndHaltsSweep ==
    [][/\ stop => (Stopped' /\ \A id \in SessionIds : ~HasSession(id)')
       /\ Stopped => (Stopped' /\ ~cleanupSweep /\ ~ENABLED cleanupSweep)]_vars

\* the server was stopped with a session registered whose pipeline was in
\* flight (no session.cancel was handled and no sweep was due yet), and the
\* pipeline has since taken a step
C23_Witness ==
    /\ Stopped
    /\ now = 0
    /\ ~HasSession("s1")
    /\ Count(Written("c1", 0), "session.cancelled") = 0
    /\ Len(heap) = 1
    /\ Len(pipelines) = 1 /\ pipelines[1].sessionAt = NoSession

\* C24: on every registry the server reaches, deleteSession of an id that is
\* not registered changes nothing, deleteSession of any id leaves the id
\* not registered and every other id with the session it had, and a second
\* deleteSession of the same id changes nothing more.
C24_DeleteIdempotent ==
    \A id \in SessionIds :
        LET once == deleteSessionIn(sessions, heap, id)
            twice == deleteSessionIn(once[1], once[2], id)
        IN /\ ~HasSession(id) => once = <<sessions, heap>>
           /\ once[1][id] = NoSession
           /\ \A other \in SessionIds \ {id} :
                 /\ once[1][other] = sessions[other]
                 /\ HasSession(other) => once[2][sessions[other]] = heap[sessions[other]]
           /\ twice = once

\* both ids were registered and the session of s1 was deleted by a
\* session.cancel: s2 is still registered
C24_Witness ==
    /\ Len(heap) = 2
    /\ ~HasSession("s1") /\ heap[1].sessionId = "s1"
    /\ getSession("s2") = 2
    /\ \E ws \in Conns : Count(Written(ws, 0), "session.cancelled") = 1

\* C25: a session.cancel can be handled in every state, on any open
\* connection and for any id; the step writes one session.cancelled (never an
\* error) to that connection and nothing else, and leaves the id not
\* registered, whether it was registered or not.
C25_CancelUnconditional ==
    [][\A ws \in Conns, id \in SessionIds :
          /\ Open(ws) => ENABLED handleSessionCancel(ws, id)
          /\ handleSessionCancel(ws, id) =>
                /\ RepliesWith(ws, id, "session.cancelled")
                /\ ~HasSession(id)']_vars

\* s1 was registered and cancelled on c1, and s2 was cancelled on c2 without
\* ever having been registered
C25_Witness ==
    /\ Len(heap) = 1 /\ heap[1].sessionId = "s1"
    /\ ~HasSession("s1")
    /\ Count(Written("c1", 0), "session.cancelled") = 1
    /\ OfType(Written("c1", 0), "session.cancelled")[1].sessionId = "s1"
    /\ Count(Written("c2", 0), "session.cancelled") = 1
    /\ OfType(Written("c2", 0), "session.cancelled")[1].sessionId = "s2"

\* the step is the one in which invocation k reaches its outcome
Terminates(k) ==
    /\ pipelines[k].pc \notin {"done", "failed"}
    /\ pipelines'[k].pc \in {"done", "failed"}

\* the step takes id out of the registry
Removes(id) == HasSession(id) /\ ~HasSession(id)'

\* C26: the step in which a pipeline invocation ends, with audio.complete or
\* with an error envelope, leaves the registry as it was, so a session that
\* get(id) returned before the step is returned after it; and a step that
\* takes an id out of the registry is the handling of a session.cancel for
\* that id, the expiry sweep or stop().
C26_TerminalKeepsSession ==
    [][/\ \A k \in Invocations :
            Terminates(k) =>
              /\ sessions' = sessions
              /\ Open(pipelines[k].ws) =>
                    /\ Len(Emitted(k)') > 0
                    /\ Emitted(k)'[Len(Emitted(k)')].type \in {"audio.complete", "error"}
       /\ \A id \in SessionIds :
            Removes(id) =>
              \/ \E ws \in Conns : handleSessionCancel(ws, id)
              \/ cleanupSweep
              \/ stop]_vars

\* an invocation ended with audio.complete and get(s1) returns its session
C26_Witness ==
    /\ Len(pipelines) = 1
    /\ pipelines[1].pc = "done"
    /\ Count(Emitted(1), "audio.complete") = 1
    /\ getSession("s1") = pipelines[1].session

\* the session ids that are keys of the registry
Registered == {id \in SessionIds : HasSession(id)}

\* the step belongs to the pipeline invocation k
PipelineStep(k) == pipelines'[k] # pipelines[k]

\* C27: the set of registered ids changes only by session.start, which adds
\* the addressed id, session.cancel, which removes it, the expiry sweep and
\* stop(), which only remove ids; audio.chunk, audio.end, a frame of an
\* unknown type, a malformed frame, a connection being opened or closed and
\* every step of a pipeline invocation leave the set as it was.
C27_KeySetChangesOnlyByLifecycle ==
    [][/\ \A ws \in Conns, id \in SessionIds :
            /\ handleSessionStart(ws, id) => Registered' = Registered \cup {id}
            /\ handleSessionCancel(ws, id) => Registered' = Registered \ {id}
            /\ AudioFrameStep(ws, id) => Registered' = Registered
            /\ UnknownFrameStep(ws, id) => Registered' = Registered
       /\ \A ws \in Conns :
            handleMalformed(ws) \/ connection(ws) \/ close(ws)
               => Registered' = Registered
       /\ \A k \in Invocations : PipelineStep(k) => Registered' = Registered
       /\ cleanupSweep \/ stop => Registered' \subseteq Registered
       /\ Registered' # Registered =>
            \/ \E ws \in Conns, id \in SessionIds :
                  handleSessionStart(ws, id) \/ handleSessionCancel(ws, id)
            \/ cleanupSweep
            \/ stop]_vars

\* a session is registered and an invocation for it, begun by an audio.end,
\* has taken a step and is under way on a connection that has since closed
C27_Witness ==
    /\ Registered = {"s1"}
    /\ Len(pipelines) = 1
    /\ pipelines[1].pc = "stream"
    /\ readyState["c1"] = "CLOSED"

\* what an invocation whose three calls succeeded has to have written, from
\* the transcript, the fragments and the audio that it was given itself
FullSequence(k) ==
    LET p == pipelines[k] IN
    << TranscriptComplete(p.sessionId, p.transcript) >>
    \o [i \in 1..Len(p.yielded) |-> LlmChunk(p.sessionId, p.yielded[i])]
    \o << LlmComplete(p.sessionId, Flatten(p.yielded)) >>
    \o SendAudio(p.sessionId, synthesizeSpeech(p.ttsFragments))

\* the invocations that have not reached their outcome
InFlight == {k \in Invocations : pipelines[k].pc \notin {"done", "failed"}}

\* C28: an audio.end for a registered session is handled whatever invocations
\* of that session are in flight: it starts one more invocation, waiting for
\* its own transcribe call, and leaves the others as they are; and every
\* invocation that ends well has written its own full sequence
\* (transcript.complete, its llm.chunks, llm.complete, its audio.chunks,
\* audio.complete) and nothing of another invocation.
C28_SecondAudioEndRunsConcurrently ==
    [][/\ \A ws \in Conns, id \in SessionIds :
            /\ Open(ws) /\ HasSession(id) => ENABLED handleAudioEnd(ws, id)
            /\ handleAudioEnd(ws, id) /\ HasSession(id) =>
                  /\ Len(pipelines') = Len(pipelines) + 1
                  /\ pipelines'[Len(pipelines')].pc = "transcribe"
                  /\ pipelines'[Len(pipelines')].session = getSession(id)
                  /\ \A k \in Invocations : pipelines'[k] = pipelines[k]
                  /\ sent' = sent
       /\ \A k \in Invocations :
            Terminates(k) /\ pipelines'[k].pc = "done" =>
                Emitted(k)' = FullSequence(k)']_vars

\* two invocations of one session ran at once: the second has ended well,
\* with a response of its own, while the first is still in flight
C28_Witness ==
    /\ Len(pipelines) = 2
    /\ pipelines[1].session = pipelines[2].session
    /\ pipelines[1].pc = "synth"
    /\ pipelines[2].pc = "done"
    /\ pipelines[1].yielded # pipelines[2].yielded
    /\ Emitted(2) = FullSequence(2)
    /\ Count(Emitted(1), "llm.complete") = 1

\* the step handles a frame that arrived on ws for id and that the handler
\* answers before it returns: every frame but an audio.end for a registered
\* session, whose answers come from its pipeline
AnsweredFrameStep(ws, id) ==
    \/ handleSessionStart(ws, id)
    \/ handleSessionCancel(ws, id)
    \/ \E d \in ChunkData : handleAudioChunk(ws, id, ToBase64(d.chunk), d.sequenceNumber)
    \/ handleAudioEnd(ws, id) /\ ~HasSession(id)

\* C29: while an invocation for a session A is suspended in an external call
\* (transcribe, the completion stream, synthesis), a frame for another
\* session B on another open connection can be handled, and handling it
\* writes its answer (session.ready, audio.received, session.cancelled or
\* error) to B's connection in that step, with A's invocation still
\* suspended where it was and nothing written for it.
C29_OtherSessionNotBlocked ==
    [][\A k \in InFlight :
         \A ws \in Conns \ {pipelines[k].ws}, id \in SessionIds \ {pipelines[k].sessionId} :
            /\ Open(ws) =>
                  /\ ENABLED handleSessionStart(ws, id)
                  /\ ENABLED handleSessionCancel(ws, id)
                  /\ ENABLED handleAudioEnd(ws, id)
                  /\ \A d \in ChunkData :
                        ENABLED handleAudioChunk(ws, id, ToBase64(d.chunk), d.sequenceNumber)
            /\ AnsweredFrameStep(ws, id) =>
                  /\ Written(ws, 0)' = Append(Written(ws, 0), LastReply(ws))
                  /\ LastReply(ws).type \in {"session.ready", "audio.received",
                                             "session.cancelled", "error"}
                  /\ LastReply(ws).sessionId = id
                  /\ pipelines'[k] = pipelines[k]
                  /\ Emitted(k)' = Emitted(k)
            /\ handleAudioEnd(ws, id) => pipelines'[k] = pipelines[k]]_vars

\* the invocation for s1 on c1 waits for transcribe, and since its audio.end
\* arrived a session.start for s2 on c2 was handled and answered
C29_Witness ==
    /\ Len(pipelines) = 1
    /\ pipelines[1].ws = "c1" /\ pipelines[1].sessionId = "s1"
    /\ pipelines[1].pc = "transcribe"
    /\ HasSession("s2") /\ getSession("s2") > pipelines[1].created
    /\ Count(Written("c2", 0), "session.ready") = 1
    /\ Written("c2", 0)[1].sessionId = "s2"

\* C30: an invocation keeps the connection its audio.end arrived on, and
\* every step of it that moves it on writes to that connection, for its own
\* session id, and to no other connection, whatever session id that
\* connection is associated with by then and whatever connections are
\* associated with the invocation's session id.
C30_PipelineWritesToOwnConnection ==
    [][/\ \A ws \in Conns, id \in SessionIds :
            handleAudioEnd(ws, id) /\ HasSession(id) =>
               /\ pipelines'[Len(pipelines')].ws = ws
               /\ pipelines'[Len(pipelines')].sessionId = id
       /\ \A k \in Invocations :
            /\ pipelines'[k].ws = pipelines[k].ws
            /\ pipelines'[k].sessionId = pipelines[k].sessionId
            /\ OnlyOwnConnection(k)'
            /\ pipelines'[k].pc # pipelines[k].pc =>
                  /\ Len(Emitted(k)') > Len(Emitted(k))
                  /\ \A c \in Conns, w \in ConnectionLayer..Len(pipelines') :
                        (c # pipelines[k].ws \/ w # k) => Written(c, w)' = Written(c, w)
            /\ \A i \in 1..Len(Emitted(k)') :
                  Emitted(k)'[i].sessionId = pipelines[k].sessionId]_vars

\* the invocation for s1 has written to c1, where its audio.end arrived;
\* c1 has sent a frame for s2 since, and c2 is the connection associated
\* with s1
C30_Witness ==
    /\ Len(pipelines) = 1
    /\ pipelines[1].ws = "c1" /\ pipelines[1].sessionId = "s1"
    /\ clientSessions["c1"] = "s2"
    /\ clientSessions["c2"] = "s1"
    /\ Count(Emitted(1), "transcript.complete") = 1
    /\ Written("c2", 1) = <<>>

\* C31: the cached audioBuffer of a registered session, once it is there, is
\* the concatenation of the session's audioChunks.
C31_CacheMatchesChunks ==
    \A id \in SessionIds :
        HasSession(id) /\ heap[getSession(id)].audioBuffer # Null =>
            heap[getSession(id)].audioBuffer
              = BufferConcat(heap[getSession(id)].audioChunks)

\* the step delivers the broadcast of m for id: to
\* every connection that is open and associated with id, and to no other
DeliversTo(id, m) ==
    \A c \in Conns :
        Written(c, ConnectionLayer)'
          = IF Open(c) /\ clientSessions[c] = id
            THEN Append(Written(c, ConnectionLayer), m)
            ELSE Written(c, ConnectionLayer)

\* C32: a connection is associated with at most one session id, the one of
\* the latest frame it sent that parsed and carried one, registered or not:
\* such a frame sets the association of its connection and of no other, a
\* frame without a session id and a frame that does not parse leave every
\* association alone, and only such frames and the closing of a connection
\* change one; broadcastToSession(id) delivers to exactly the connections
\* that are open and associated with id.
C32_AssociationAndBroadcast ==
    [][/\ \A ws \in Conns : clientSessions'[ws] \in SessionIds \cup {Unassociated}
       /\ \A ws \in Conns, id \in SessionIds :
            InboundFrameStep(ws, id) =>
               clientSessions' = [clientSessions EXCEPT ![ws] = id]
       /\ \A ws \in Conns :
            handleMalformed(ws) \/ (\E type \in UnknownTypes : handleUnknownNoId(ws, type))
               => clientSessions' = clientSessions
       /\ clientSessions' # clientSessions =>
            \E ws \in Conns :
               close(ws) \/ \E id \in SessionIds : InboundFrameStep(ws, id)
       /\ \A id \in SessionIds, m \in Notices :
            broadcastToSession(id, m) => DeliversTo(id, m)]_vars

\* c1 is associated with s1, which is not registered, and got the broadcast
\* for s1; c2, open and associated with s2, did not
C32_Witness ==
    /\ clientSessions["c1"] = "s1" /\ clientSessions["c2"] = "s2"
    /\ Open("c1") /\ Open("c2")
    /\ ~HasSession("s1")
    /\ Count(Written("c1", ConnectionLayer), "notice") = 1
    /\ Count(Written("c2", ConnectionLayer), "notice") = 0

\* C33: every envelope written to a connection, by a handler, a pipeline
\* invocation or the connection layer, has exactly the fields type,
\* sessionId, timestamp and data.
C33_UniformEnvelopeShape ==
    \A ws \in Conns :
        \A w \in DOMAIN sent[ws] :
            \A i \in 1..Len(sent[ws][w]) :
                DOMAIN sent[ws][w][i] = {"type", "sessionId", "timestamp", "data"}

\* C34: a frame whose text does not parse, arriving on an open connection,
\* is handled in every state: the connection gets one error envelope with
\* code MESSAGE_PARSE_ERROR and nothing else is written anywhere; the
\* connection stays open, and the registry, the Session objects, the
\* associations and the pipeline invocations stay as they were.
C34_MalformedFrameParseError ==
    [][\A ws \in Conns :
          /\ Open(ws) => ENABLED handleMalformed(ws)
          /\ Open(ws) /\ handleMalformed(ws) =>
                /\ Len(Written(ws, ConnectionLayer)')
                      = Len(Written(ws, ConnectionLayer)) + 1
                /\ LET e == Written(ws, ConnectionLayer)'[Len(Written(ws, ConnectionLayer)')]
                   IN /\ Written(ws, ConnectionLayer)'
                           = Append(Written(ws, ConnectionLayer), e)
                      /\ e.type = "error"
                      /\ e.data.code = "MESSAGE_PARSE_ERROR"
                /\ \A c \in Conns, w \in ConnectionLayer..Len(pipelines') :
                      (c # ws \/ w # ConnectionLayer) => Written(c, w)' = Written(c, w)
                /\ Open(ws)'
                /\ UNCHANGED <<sessions, heap, clientSessions, pipelines, readyState>>]_vars

\* c1, associated with the registered session s1, sent a frame that does
\* not parse: it got the parse error, is open and is still associated
C34_Witness ==
    /\ Open("c1")
    /\ HasSession("s1")
    /\ clientSessions["c1"] = "s1"
    /\ Count(Written("c1", ConnectionLayer), "error") = 1
    /\ Count(Written("c1", 0), "session.ready") = 1

\* the types of the envelopes of a log, in the order written
Types(log) == [i \in 1..Len(log) |-> log[i].type]

\* n times the type t
Repeat(t, n) == [i \in 1..n |-> t]

\* C35: an invocation whose completion stream failed after k fragments has
\* written transcript.complete, the k llm.chunk envelopes and then one error
\* envelope, and nothing else; one whose synthesis failed has written
\* transcript.complete, its llm.chunk envelopes, llm.complete and then one
\* error envelope, and nothing else. Neither writes anything afterwards.
C35_LateFailureOneError ==
    \A k \in Invocations :
        LET p == pipelines[k]
            log == Emitted(k)
            chunks == Repeat("llm.chunk", Len(p.yielded))
        IN /\ p.failedAt = "streamCompletion" =>
                /\ p.pc = "failed"
                /\ Types(log) = << "transcript.complete" >> \o chunks \o << "error" >>
                /\ Contents(OfType(log, "llm.chunk")) = p.yielded
           /\ p.failedAt = "synthesizeSpeech" =>
                /\ p.pc = "failed"
                /\ Types(log) = << "transcript.complete" >> \o chunks
                                   \o << "llm.complete", "error" >>
                /\ Contents(OfType(log, "llm.chunk")) = p.yielded

\* one invocation failed in its completion stream after two fragments and
\* another one failed in synthesis
C35_Witness ==
    /\ Len(pipelines) = 2
    /\ pipelines[1].failedAt = "streamCompletion"
    /\ Len(pipelines[1].yielded) = 2
    /\ pipelines[2].failedAt = "synthesizeSpeech"
    /\ Count(Emitted(1), "error") = 1
    /\ Count(Emitted(2), "error") = 1

\* the step is one in which an external call of invocation k succeeds
CallSucceeds(k) ==
    \/ \E t \in Transcripts : transcribeReturns(k, t)
    \/ \E d \in Deltas \ {<<>>} : streamDelta(k, d)
    \/ streamEnds(k)
    \/ \E f \in SeqsUpTo(TtsFragments, LifecycleBounds.tts) : synthReturns(k, f)

\* C36: an invocation whose connection is no longer open goes on as if it
\* were: each of its external calls can still return, a call that succeeds
\* takes the invocation one stage further and never makes it fail, nothing
\* is written to any connection, and when synthesis returns the invocation
\* ends and its session's state becomes complete.
C36_ClosedConnectionDropsSilently ==
    [][\A k \in InFlight :
         ~Open(pipelines[k].ws) =>
            /\ pipelines[k].pc = "transcribe" =>
                  \A t \in Transcripts : ENABLED transcribeReturns(k, t)
            /\ pipelines[k].pc = "stream" =>
                  /\ ENABLED streamEnds(k)
                  /\ \A d \in Deltas : ENABLED streamDelta(k, d)
            /\ pipelines[k].pc = "synth" =>
                  \A f \in SeqsUpTo(TtsFragments, LifecycleBounds.tts) :
                     ENABLED synthReturns(k, f)
            /\ PipelineStep(k) => sent' = sent
            /\ CallSucceeds(k) =>
                  /\ pipelines'[k].pc # pipelines[k].pc
                       \/ Len(pipelines'[k].yielded) = Len(pipelines[k].yielded) + 1
                  /\ pipelines'[k].pc # "failed"
                  /\ pipelines'[k].failedAt = "none"
            /\ (\E f \in SeqsUpTo(TtsFragments, LifecycleBounds.tts) : synthReturns(k, f)) =>
                  /\ pipelines'[k].pc = "done"
                  /\ heap'[pipelines[k].session].state = "complete"]_vars

\* the connection was closed when the invocation had sent its transcript;
\* the invocation has ended well since, yielding a fragment on its way, and
\* its session's state is complete
C36_Witness ==
    /\ Len(pipelines) = 1
    /\ readyState[pipelines[1].ws] = "CLOSED"
    /\ pipelines[1].pc = "done"
    /\ Len(pipelines[1].yielded) = 1
    /\ Types(Emitted(1)) = << "transcript.complete" >>
    /\ heap[pipelines[1].session].state = "complete"

\* the terminating envelopes that invocation k has written
Terminating(k) == Count(Emitted(k), "audio.complete") + Count(Emitted(k), "error")

\* invocation k has ended, and the last envelope it wrote is its one
\* terminating envelope
Ended(k) ==
    /\ k \in Invocations
    /\ pipelines[k].pc \in {"done", "failed"}
    /\ Terminating(k) = 1
    /\ Emitted(k)[Len(Emitted(k))].type \in {"audio.complete", "error"}
    /\ pipelines[k].pc = "done" <=> Count(Emitted(k), "audio.complete") = 1

\* C37: when every external call returns or fails in the end and every
\* ready continuation runs, each audio.end handled on a registered session
\* leads to its invocation having ended with one terminating envelope,
\* audio.complete or error, written last; and no invocation ever has more
\* than one terminating envelope, or one while it is in flight.
C37_EveryInvocationTerminates ==
    /\ \A k \in 1..FairBounds.pipelines : (Len(pipelines) >= k) ~> Ended(k)
    /\ [](\A k \in Invocations :
            /\ Terminating(k) <= 1
            /\ k \in InFlight => Terminating(k) = 0)

\* the first invocation ended with audio.complete and the second, of the
\* same session, with an error
C37_Witness ==
    /\ Len(pipelines) = 2
    /\ Ended(1) /\ Ended(2)
    /\ pipelines[1].pc = "done"
    /\ pipelines[2].pc = "failed"

\* C38: no invocation on a Session object whose state is complete is in
\* flight.
C38_CompleteMeansIdle ==
    \A s \in 1..Len(heap) :
        heap[s].state = "complete" => InvocationsOn(s) \cap InFlight = {}

\* a Session object on which no audio.end was handled is as it was made,
\* but for the chunks it was sent
Untouched(s) ==
    /\ heap[s].state = "recording"
    /\ heap[s].transcript = <<>>
    /\ heap[s].audioBuffer = Null

\* C39: a step of a pipeline invocation changes no Session object but the
\* one the invocation was started on, and leaves the registry alone: the
\* session that a session.start has put in its place since stays as it is,
\* and as long as no audio.end is handled on it its state is recording and
\* its transcript is empty.
C39_OldPipelineLeavesNewSession ==
    [][/\ \A k \in Invocations :
            PipelineStep(k) =>
               /\ sessions' = sessions
               /\ \A s \in 1..Len(heap) :
                     s # pipelines[k].session => heap'[s] = heap[s]
       /\ \A s \in 1..Len(heap') :
            InvocationsOn(s)' = {} => Untouched(s)']_vars

\* the invocation on the first session of s1 ended well after a
\* session.start had replaced that session: the old session is complete and
\* the new one is as it was made
C39_Witness ==
    /\ Len(heap) = 2 /\ Len(pipelines) = 1
    /\ pipelines[1].session = 1 /\ pipelines[1].created = 1
    /\ pipelines[1].pc = "done"
    /\ getSession("s1") = 2
    /\ heap[1].state = "complete"
    /\ Untouched(2) /\ heap[2].audioChunks = <<>>

\* the envelopes with session id `id` that pipeline invocations have
\* written to ws are those of invocation k, and they are all k has written
OwnsSessionOnWire(k) ==
    /\ \A i \in 1..Len(Emitted(k)) : Emitted(k)[i].sessionId = pipelines[k].sessionId
    /\ \A j \in Invocations \ {k} :
          \A i \in 1..Len(Written(pipelines[k].ws, j)) :
             Written(pipelines[k].ws, j)[i].sessionId # pipelines[k].sessionId

\* the log is in the order of one pipeline: transcript.complete, llm.chunk*,
\* llm.complete, audio.chunk* numbered from 0, audio.complete, or a prefix of
\* that with an error at its end
SinglePipelineOrder(log) ==
    /\ PhasesInOrder(log)
    /\ Count(log, "transcript.complete") <= 1
    /\ Count(log, "llm.complete") <= 1
    /\ Count(log, "audio.complete") <= 1
    /\ Count(log, "error") <= 1
    /\ Count(log, "error") = 1 => Count(log, "audio.complete") = 0
    /\ Len(log) > 0 /\ log[1].type # "error" => log[1].type = "transcript.complete"
    /\ Count(log, "llm.chunk") > 0 => Count(log, "transcript.complete") = 1
    /\ Count(log, "audio.chunk") + Count(log, "audio.complete") > 0 =>
          Count(log, "llm.complete") = 1
    /\ LET nums == SequenceNumbers(OfType(log, "audio.chunk")) IN
          \A i \in 1..Len(nums) : nums[i] = i - 1
    /\ \A i \in 1..Count(log, "llm.complete") :
          OfType(log, "llm.complete")[i].data.fullText
             = Flatten(Contents(OfType(log, "llm.chunk")))

\* C40: when invocations for two session ids run on one connection, the
\* envelopes that carry one of the ids are those of one invocation, in the
\* order it wrote them, and they are in the order of a single pipeline,
\* with the audio chunks numbered 0, 1, 2, ... and the fullText of
\* llm.complete the concatenation of the llm.chunk contents of that id.
C40_InterleavedSessionsKeepOrder ==
    \A k1, k2 \in Invocations :
        /\ pipelines[k1].ws = pipelines[k2].ws
        /\ pipelines[k1].sessionId # pipelines[k2].sessionId
        => /\ OwnsSessionOnWire(k1)
           /\ SinglePipelineOrder(Emitted(k1))

\* two invocations for s1 and s2 ran at once on c1, each with a fragment of
\* its own: the second has ended well while the first waits for its audio
C40_Witness ==
    /\ Len(pipelines) = 2
    /\ pipelines[1].ws = pipelines[2].ws
    /\ pipelines[1].sessionId # pipelines[2].sessionId
    /\ pipelines[1].pc = "synth"
    /\ pipelines[2].pc = "done"
    /\ Len(pipelines[1].yielded) = 1 /\ Len(pipelines[2].yielded) = 1
    /\ pipelines[1].yielded # pipelines[2].yielded
    /\ Count(Emitted(2), "audio.chunk") = 2

====
